---- MODULE Spec2Model ----
(***************************************************************************)
(* Model of the connection and dispatch subsystem of the node:             *)
(*   - Connection (connection.rs): framing of incoming plaintext, the      *)
(*     packet validation gate, the handshake gate, ready()/flush_tls();    *)
(*   - the broadcast deduplication queue (benches/p2p_lib_benchmark.rs);   *)
(*   - send_message routing.                                               *)
(* Bytes are naturals below 128.  A missing pkt_buffer (None) is the       *)
(* record NoBuffer.                                                        *)
(***************************************************************************)
EXTENDS Integers, Sequences, FiniteSets, TLC, Bags

(***************************************************************************)
(* Bounds of the model.                                                    *)
(***************************************************************************)
MaxItems == 2

(***************************************************************************)
(* Program constants.                                                      *)
(***************************************************************************)
\* connection.rs:613  if self.expected_size > 268_435_456
MaxPacketSize == 268435456

\* network module (not in the tree): length of the ASCII protocol header
\* and of the protocol-message-type code that follows it.
PROTOCOL_HEADER_LENGTH == 3
PROTOCOL_MESSAGE_TYPE_LENGTH == 2
PROTOCOL_MESSAGE_LENGTH == PROTOCOL_HEADER_LENGTH + PROTOCOL_MESSAGE_TYPE_LENGTH

\* The ASCII protocol header "CP1".
ProtocolHeader == <<67, 80, 49>>

(***************************************************************************)
(* Generic helpers on byte sequences.                                      *)
(***************************************************************************)
Take(s, n) == SubSeq(s, 1, n)
Drop(s, n) == SubSeq(s, n + 1, Len(s))

\* read_u32::<NetworkEndian>() on the first four bytes of b
ReadU32(b) == ((b[1] * 256 + b[2]) * 256 + b[3]) * 256 + b[4]

\* write_u32::<NetworkEndian>(n)
WriteU32(n) == << (n \div 16777216) % 256, (n \div 65536) % 256,
                  (n \div 256) % 256, n % 256 >>

\* Let(v, F) is F(v) with v evaluated once.
Let(v, F(_)) == CHOOSE y \in { F(x) : x \in {v} } : TRUE

(***************************************************************************)
(* Protocol message types and their two-character wire codes.              *)
(***************************************************************************)
ProtocolMessageTypeCode ==
    [ Ping |-> <<48, 49>>, Pong |-> <<48, 50>>, FindNode |-> <<48, 51>>,
      FindNodeResponse |-> <<48, 52>>, GetPeers |-> <<48, 53>>,
      PeerList |-> <<48, 54>>, JoinNetwork |-> <<48, 55>>,
      LeaveNetwork |-> <<48, 56>>, Handshake |-> <<48, 57>>,
      BanNode |-> <<49, 48>>, UnbanNode |-> <<49, 49>>,
      DirectMessage |-> <<49, 50>>, BroadcastedMessage |-> <<49, 51>>,
      Retransmit |-> <<49, 52>>, HandshakeResponse |-> <<49, 53>> ]

ProtocolMessageTypes == DOMAIN ProtocolMessageTypeCode

\* ProtocolMessageType::try_from(code): the type with that code, or "None"
ProtocolMessageType_try_from(code) ==
    IF \E t \in ProtocolMessageTypes : ProtocolMessageTypeCode[t] = code
    THEN CHOOSE t \in ProtocolMessageTypes : ProtocolMessageTypeCode[t] = code
    ELSE "None"

RequestTypes == {"Ping", "FindNode", "GetPeers", "JoinNetwork", "LeaveNetwork",
                 "Handshake", "BanNode", "UnbanNode", "Retransmit"}
ResponseTypes == {"Pong", "FindNodeResponse", "PeerList", "HandshakeResponse"}
PacketTypes == {"DirectMessage", "BroadcastedMessage"}

\* NetworkMessage::deserialize: the wire category and kind of a frame body
NetworkMessage_deserialize(body) ==
    IF Len(body) < PROTOCOL_MESSAGE_LENGTH
       \/ Take(body, PROTOCOL_HEADER_LENGTH) # ProtocolHeader
    THEN [cat |-> "Invalid", kind |-> "None"]
    ELSE LET t == ProtocolMessageType_try_from(
                     SubSeq(body, PROTOCOL_HEADER_LENGTH + 1, PROTOCOL_MESSAGE_LENGTH))
         IN  IF t \in RequestTypes THEN [cat |-> "Request", kind |-> t]
             ELSE IF t \in ResponseTypes THEN [cat |-> "Response", kind |-> t]
             ELSE IF t \in PacketTypes THEN [cat |-> "Packet", kind |-> t]
             ELSE [cat |-> "Unknown", kind |-> "None"]

IsHandshake(msg) ==
    \/ msg.cat = "Request" /\ msg.kind = "Handshake"
    \/ msg.cat = "Response" /\ msg.kind = "HandshakeResponse"

(***************************************************************************)
(* The message handler graph.  handlers = "handshake" is the table built   *)
(* by setup_handshake_handler, "full" the one built by                     *)
(* setup_message_handler.  The result is "Ok", "Unwanted" (an              *)
(* UnwantedMessageError), "FunctorUnwanted" (a FunctorError whose vector   *)
(* of accumulated errors holds an UnwantedMessageError) or "Err" (any      *)
(* other error).  est is the result of the full table's callbacks for      *)
(* this message.                                                           *)
(***************************************************************************)
\* handshake_request_handle / handshake_response_handle
handshake_handle(msg) == IF IsHandshake(msg) THEN "Ok" ELSE "Unwanted"

\* setup_handshake_handler: a request callback and a response callback only
HandshakeTable(msg) ==
    IF msg.cat \in {"Request", "Response"} THEN handshake_handle(msg) ELSE "Ok"

\* MessageHandler::process_message
MessageHandler_process_message(handlers, msg, est) ==
    IF handlers = "handshake" THEN HandshakeTable(msg) ELSE est

HandlerResults == {"Ok", "Err", "Unwanted", "FunctorUnwanted"}

(***************************************************************************)
(* Connection.                                                             *)
(***************************************************************************)
NoBuffer == [some |-> FALSE, data |-> <<>>]

\* Connection::new
Connection_new(peer_type) ==
    [ local_peer_type   |-> peer_type,
      closing           |-> FALSE,
      closed            |-> FALSE,
      currently_read    |-> 0,
      expected_size     |-> 0,
      pkt_buffer        |-> NoBuffer,
      pkt_validated     |-> FALSE,
      pkt_valid         |-> FALSE,
      messages_received |-> 0,
      \* the counter invalid_packets_received of the PrometheusServer
      invalid_packets_received |-> 0,
      \* history: the frames validate_packet has refused
      rejected          |-> 0,
      status            |-> "Untrusted",
      handlers          |-> "handshake",
      panicked          |-> FALSE,
      \* the result of the last call of incoming_plaintext: "Ok" or "Err"
      ret               |-> "Ok",
      \* history: the messages handed to process_complete_packet
      delivered         |-> <<>> ]

\* A close that marks the connection closed at once.
close_shut(c) == [c EXCEPT !.closed = TRUE]

\* Connection::close
close(c) == [c EXCEPT !.closing = TRUE]

clear_buffer(c) ==
    [c EXCEPT !.currently_read = 0, !.expected_size = 0, !.pkt_buffer = NoBuffer,
              !.pkt_valid = FALSE, !.pkt_validated = FALSE]

setup_buffer(c) ==
    [c EXCEPT !.pkt_buffer = [some |-> TRUE, data |-> <<>>],
              !.pkt_valid = FALSE, !.pkt_validated = FALSE]

\* An append_buffer that does not count the bytes it appends.
append_buffer_uncounted(c, new_data) ==
    IF c.pkt_buffer.some
    THEN [c EXCEPT !.pkt_buffer.data = @ \o new_data]
    ELSE c

\* append_buffer
append_buffer(c, new_data) ==
    IF c.pkt_buffer.some
    THEN [c EXCEPT !.pkt_buffer.data = @ \o new_data,
                   !.currently_read = @ + Len(new_data)]
    ELSE c

update_buffer_read_stats(c, buf_len) == [c EXCEPT !.currently_read = @ + buf_len]

setup_message_handler(c) == [c EXCEPT !.handlers = "full"]

\* validate_packet_type: "Ok", "Err" (PeerError) or "Panic" (slice out of range)
validate_packet_type(c, buf) ==
    IF c.local_peer_type = "Bootstrapper"
    THEN IF Len(buf) < PROTOCOL_MESSAGE_TYPE_LENGTH THEN "Panic"
         ELSE IF ProtocolMessageType_try_from(Take(buf, PROTOCOL_MESSAGE_TYPE_LENGTH))
                   \in PacketTypes
              THEN "Err" ELSE "Ok"
    ELSE "Ok"

validate_packet(c) ==
    IF ~c.pkt_validated /\ c.pkt_buffer.some
       /\ Len(c.pkt_buffer.data) >= PROTOCOL_MESSAGE_LENGTH
    THEN LET bufdata == Take(Drop(c.pkt_buffer.data, PROTOCOL_HEADER_LENGTH),
                             PROTOCOL_MESSAGE_TYPE_LENGTH)
         IN  IF validate_packet_type(c, bufdata) = "Err"
             THEN [close(clear_buffer(c)) EXCEPT !.rejected = @ + 1]
             ELSE [c EXCEPT !.pkt_valid = TRUE, !.pkt_validated = TRUE]
    ELSE c

\* process_complete_packet followed by drop_conn_if_unwanted!
process_complete_packet(c, buffered, est) ==
    LET msg == NetworkMessage_deserialize(buffered)
        res == MessageHandler_process_message(c.handlers, msg, est)
        c1  == [c EXCEPT !.messages_received = @ + 1]
        c2  == IF res = "Unwanted" THEN close(c1)
               ELSE IF res \in {"Err", "FunctorUnwanted"} THEN c1
               ELSE IF c1.status = "Untrusted"
                    THEN [setup_message_handler(c1) EXCEPT !.status = "Established"]
                    ELSE c1
    IN  [c2 EXCEPT !.delivered = Append(@,
            [body |-> buffered, msg |-> msg, res |-> res, pre |-> c.status,
             post |-> c2.status, was_closing |-> c.closing,
             closing |-> c2.closing])]

\* The completion of a packet inside incoming_plaintext:
\*   if self.pkt_valid() || !self.pkt_validated() { ... validate_packet_type(..)?;
\*       drop_conn_if_unwanted!(self.process_complete_packet(buffered), self) }
\* ret = "Err" is the early return of the ? operator.
complete_packet(c, est) ==
    IF c.pkt_valid \/ ~c.pkt_validated
    THEN LET buffered == IF c.pkt_buffer.some THEN c.pkt_buffer.data ELSE <<>>
             v == validate_packet_type(c, buffered)
         IN  IF v = "Panic"
             THEN [c |-> [c EXCEPT !.panicked = TRUE, !.ret = "Err"], ret |-> "Panic"]
             ELSE IF v = "Err" THEN [c |-> [c EXCEPT !.ret = "Err"], ret |-> "Err"]
             ELSE [c |-> process_complete_packet(c, buffered, est), ret |-> "Ok"]
    ELSE [c |-> c, ret |-> "Ok"]

\* read_size without the check of the limit.
read_size_no_limit(c, size) == setup_buffer([c EXCEPT !.expected_size = size])

\* The length prefix has been read (connection.rs 610-618): a size above the
\* limit is discarded, any other size sets up the buffer of a new packet.
read_size(c, size) ==
    IF size > MaxPacketSize
    THEN [c EXCEPT !.expected_size = 0]
    ELSE setup_buffer([c EXCEPT !.expected_size = size])

RECURSIVE incoming_plaintext(_, _, _)
incoming_plaintext(c0, buf, est) ==
  Let(validate_packet(c0), LAMBDA c :
    IF c.expected_size > 0 /\ c.currently_read = c.expected_size
    THEN Let(complete_packet(c, est), LAMBDA r :
             IF r.ret # "Ok" THEN r.c
             ELSE incoming_plaintext(clear_buffer(r.c), buf, est))
    ELSE IF c.expected_size > 0 /\ Len(buf) <= c.expected_size - c.currently_read
    THEN Let(IF c.pkt_valid \/ ~c.pkt_validated
             THEN append_buffer(c, buf)
             ELSE update_buffer_read_stats(c, Len(buf)), LAMBDA c1 :
             IF c1.expected_size = c1.currently_read
             THEN Let(complete_packet(c1, est), LAMBDA r :
                      IF r.ret # "Ok" THEN r.c ELSE clear_buffer(r.c))
             ELSE c1)
    ELSE IF c.expected_size > 0 /\ Len(buf) > c.expected_size - c.currently_read
    THEN LET to_take == c.expected_size - c.currently_read
         IN  Let(complete_packet(IF c.pkt_valid \/ ~c.pkt_validated
                                 THEN append_buffer(c, Take(buf, to_take))
                                 ELSE c, est), LAMBDA r :
                 IF r.ret # "Ok" THEN r.c
                 ELSE incoming_plaintext(clear_buffer(r.c), Drop(buf, to_take), est))
    ELSE IF Len(buf) >= 4
    THEN LET size == ReadU32(Take(buf, 4))
         IN  Let(read_size(c, size), LAMBDA c1 :
                 IF size > MaxPacketSize
                 THEN incoming_plaintext(c1, Drop(buf, 4), est)
                 ELSE IF Len(buf) > 4
                      THEN incoming_plaintext(c1, Drop(buf, 4), est)
                      ELSE c1)
    ELSE c)

(***************************************************************************)
(* The TLS session as the connection sees it: whether it wants to read,    *)
(* and how many frames are queued for writing (wants_write is pending > 0).*)
(***************************************************************************)
MaxPending == 1
MaxReads == 1

TlsSession_new == [wants_read |-> TRUE, pending |-> 0]

\* Outcomes of a read in which no plaintext is produced.
\*   Eof, WouldBlock, Other: results of read_tls (Ok(0), Err(WouldBlock), other Err)
\*   TlsErr: process_new_packets fails;  PlainErr: read_to_end fails
ReadTerminals == {"Eof", "WouldBlock", "Other", "TlsErr", "PlainErr"}

WriteOutcomes == {"Ok", "WouldBlock", "WriteZero", "Interrupted", "Other"}

\* What the last operation on the connection did (history); seq alternates
\* between 0 and 1 at every call of ready().
NoOp ==
    [ op |-> "none", seq |-> 0, ret |-> "Ok",
      rres |-> "None", rbefore |-> FALSE, rafter |-> FALSE, rsize |-> "None",
      wres |-> "None", wpending |-> 0 ]

\* do_tls_read with the socket outcome out; size is "Data", "Zero" or "Err"
do_tls_read(c, t, out) ==
    IF t.wants_read
    THEN IF out = "Data" THEN [c |-> c, size |-> "Data", read |-> TRUE]
         ELSE IF out = "Eof" THEN [c |-> c, size |-> "Zero", read |-> TRUE]
         ELSE IF out = "TlsErr" THEN [c |-> c, size |-> "Err", read |-> TRUE]
         ELSE IF out = "WouldBlock" THEN [c |-> c, size |-> "Zero", read |-> TRUE]
         ELSE [c |-> [c EXCEPT !.closing = TRUE], size |-> "Err", read |-> TRUE]
    ELSE [c |-> c, size |-> "Zero", read |-> FALSE]

\* try_plain_read: buf is the plaintext read_to_end returns, or it fails
try_plain_read(c, buf, fails, est) ==
    IF fails THEN [c EXCEPT !.closing = TRUE, !.ret = "Err"]
    ELSE IF buf # <<>> THEN incoming_plaintext([c EXCEPT !.ret = "Ok"], buf, est)
    ELSE [c EXCEPT !.ret = "Ok"]

\* flush_tls that still writes while the connection is closing.
flush_tls_while_closing(c, t, wout, n) ==
    LET wants_write == t.pending > 0 /\ ~c.closed
    IN  IF wants_write
        THEN IF wout \in {"WouldBlock", "WriteZero", "Interrupted"}
             THEN [c |-> c, t |-> t, ret |-> "Err", wres |-> wout]
             ELSE IF wout = "Other"
             THEN [c |-> [c EXCEPT !.closing = TRUE], t |-> t, ret |-> "Err", wres |-> wout]
             ELSE [c |-> c, t |-> [t EXCEPT !.pending = IF n < @ THEN @ - n ELSE 0],
                   ret |-> "Ok", wres |-> wout]
        ELSE [c |-> c, t |-> t, ret |-> "Ok", wres |-> "None"]

\* flush_tls in which only WouldBlock is not fatal.
flush_tls_strict(c, t, wout, n) ==
    LET wants_write == t.pending > 0 /\ ~c.closed /\ ~c.closing
    IN  IF wants_write
        THEN IF wout = "WouldBlock"
             THEN [c |-> c, t |-> t, ret |-> "Err", wres |-> wout]
             ELSE IF wout # "Ok"
             THEN [c |-> [c EXCEPT !.closing = TRUE], t |-> t, ret |-> "Err", wres |-> wout]
             ELSE [c |-> c, t |-> [t EXCEPT !.pending = IF n < @ THEN @ - n ELSE 0],
                   ret |-> "Ok", wres |-> wout]
        ELSE [c |-> c, t |-> t, ret |-> "Ok", wres |-> "None"]

\* flush_tls with the socket outcome wout; n is the number of frames an
\* Ok write takes from the queue
flush_tls(c, t, wout, n) ==
    LET wants_write == t.pending > 0 /\ ~c.closed /\ ~c.closing
    IN  IF wants_write
        THEN IF wout \in {"WouldBlock", "WriteZero", "Interrupted"}
             THEN [c |-> c, t |-> t, ret |-> "Err", wres |-> wout]
             ELSE IF wout = "Other"
             THEN [c |-> [c EXCEPT !.closing = TRUE], t |-> t, ret |-> "Err", wres |-> wout]
             ELSE [c |-> c, t |-> [t EXCEPT !.pending = IF n < @ THEN @ - n ELSE 0],
                   ret |-> "Ok", wres |-> wout]
        ELSE [c |-> c, t |-> t, ret |-> "Ok", wres |-> "None"]

\* ready() that shuts down as soon as closing is set.
ready_finish_eager(c, t) ==
    IF c.closing THEN [c EXCEPT !.closed = TRUE] ELSE c

\* The end of ready(): shut the socket down once closing and drained.
ready_finish(c, t) ==
    IF c.closing /\ ~t.wants_read THEN [c EXCEPT !.closed = TRUE] ELSE c

\* The read loop of ready():  while let Ok(size) = self.do_tls_read() { ... }
\* outs are the iterations that read data, each [e, wr]: the plaintext up to
\* position e of the stream (of total bytes; nothing when e is behind) and
\* whether the session wants to read afterwards; term ends the loop.
\* early is the early return of try_plain_read(..)?
RECURSIVE read_loop(_, _, _, _, _, _, _)
read_loop(c, t, data, total, outs, term, est) ==
    IF outs = <<>>
    THEN IF term = "PlainErr"
         THEN Let(do_tls_read(c, t, "Data"), LAMBDA r :
                  IF r.size = "Data"
                  THEN [c |-> try_plain_read(r.c, <<>>, TRUE, est), t |-> t, data |-> data,
                        early |-> TRUE, rres |-> "PlainErr", rbefore |-> c.closing,
                        rafter |-> TRUE, rsize |-> "Data"]
                  ELSE [c |-> r.c, t |-> t, data |-> data, early |-> FALSE,
                        rres |-> "None", rbefore |-> c.closing,
                        rafter |-> r.c.closing, rsize |-> r.size])
         ELSE Let(do_tls_read(c, t, term), LAMBDA r :
                  [c |-> r.c, t |-> t, data |-> data, early |-> FALSE,
                   rres |-> IF r.read THEN term ELSE "None",
                   rbefore |-> c.closing, rafter |-> r.c.closing, rsize |-> r.size])
    ELSE Let(do_tls_read(c, t, "Data"), LAMBDA r :
             IF r.size # "Data"
             THEN [c |-> r.c, t |-> t, data |-> data, early |-> FALSE,
                   rres |-> "None", rbefore |-> c.closing,
                   rafter |-> r.c.closing, rsize |-> r.size]
             ELSE LET out == Head(outs)
                      consumed == total - Len(data)
                      n == IF out.e > consumed THEN out.e - consumed ELSE 0
                      t1 == [t EXCEPT !.wants_read = out.wr]
                  IN  Let(try_plain_read(r.c, Take(data, n), FALSE, est), LAMBDA c1 :
                          IF c1.ret = "Err"
                          THEN [c |-> c1, t |-> t1, data |-> Drop(data, n), early |-> TRUE,
                                rres |-> "None", rbefore |-> c.closing,
                                rafter |-> c1.closing, rsize |-> "Data"]
                          ELSE read_loop(c1, t1, Drop(data, n), total, Tail(outs), term, est)))

(***************************************************************************)
(* The byte stream a peer sends: a sequence of items, each a frame (length *)
(* prefix and body) or a bare length prefix above the 256 MiB limit.       *)
(***************************************************************************)
Body(t, payload) == ProtocolHeader \o ProtocolMessageTypeCode[t] \o payload

\* serialize_bytes: u32 len | pkt
Frame(body) == WriteU32(Len(body)) \o body

FrameBodies ==
    { Body("Handshake", <<>>), Body("HandshakeResponse", <<>>), Body("Ping", <<>>),
      Body("DirectMessage", <<0, 0, 0, 1, 7>>), Body("BroadcastedMessage", <<9>>),
      <<7>> }

OversizeHeaders == { <<16, 0, 0, 1>> }

Items == [type : {"frame"}, bytes : FrameBodies]
         \cup [type : {"oversize"}, bytes : OversizeHeaders]

ItemBytes(it) == IF it.type = "frame" THEN Frame(it.bytes) ELSE it.bytes

RECURSIVE StreamOf(_)
StreamOf(its) == IF its = <<>> THEN <<>> ELSE ItemBytes(Head(its)) \o StreamOf(Tail(its))

ItemSeqs == UNION { [1..n -> Items] : n \in 1..MaxItems }

PeerTypes == {"Node", "Bootstrapper"}

(***************************************************************************)
(* The deduplication queue of broadcast fingerprints (a CircularQueue)     *)
(* and the routing of send_message.                                        *)
(***************************************************************************)
Capacity == 2

Fingerprints == 0..Capacity
Payloads == 0..(Capacity + 1)

\* XxHash64::digest: distinct payloads can have the same fingerprint
XxHash64(bytes) == bytes % (Capacity + 1)

Elems(q) == { q[i] : i \in 1..Len(q) }

\* CircularQueue::with_capacity
CircularQueue_with_capacity == <<>>

\* CircularQueue::push in which a full queue drops the new element.
CircularQueue_push_keep_old(q, x) ==
    IF Len(q) < Capacity THEN Append(q, x) ELSE q

\* CircularQueue::push: a full queue overwrites its oldest element
CircularQueue_push(q, x) ==
    IF Len(q) < Capacity THEN Append(q, x) ELSE Append(Tail(q), x)

\* seen_or_insert that never reports a fingerprint as seen.
seen_or_insert_blind(q, h) ==
    [queue |-> CircularQueue_push(q, h), seen |-> FALSE]

\* if !queue.iter().any(|h| h == &new_msg_hash) { queue.push(new_msg_hash); }
seen_or_insert(q, h) ==
    IF \E i \in 1..Len(q) : q[i] = h
    THEN [queue |-> q, seen |-> TRUE]
    ELSE [queue |-> CircularQueue_push(q, h), seen |-> FALSE]

Peers == {"p1", "p2", "p3"}
NetworkIds == {100, 200}
PeerTypeOf == [p1 |-> "Node", p2 |-> "Node", p3 |-> "Bootstrapper"]
PeerNetworks == [p1 |-> {100}, p2 |-> {100, 200}, p3 |-> {100, 200}]

NoCopies == [p \in Peers |-> 0]

\* Forwarding to every connection, whatever its state, type and networks.
BroadcastTargets_all(est, net, origin) == Peers

\* The peers a broadcast on net from origin is forwarded to.
BroadcastTargets(est, net, origin) ==
    { p \in est : PeerTypeOf[p] = "Node" /\ net \in PeerNetworks[p] /\ p # origin }

\* send_message(target, net, msg_id, bytes, broadcast): the queue afterwards,
\* whether the payload was dropped as seen, and the copies each peer gets.
\* origin is the peer the payload came from, "self" for a local payload.
send_message(q, est, target, origin, net, bytes, broadcast) ==
    IF target # "None" /\ ~broadcast
    THEN [queue |-> q, seen |-> FALSE,
          copies |-> [p \in Peers |-> IF p = target /\ p \in est THEN 1 ELSE 0]]
    ELSE LET r == seen_or_insert(q, XxHash64(bytes))
         IN  [queue |-> r.queue, seen |-> r.seen,
              copies |-> IF r.seen THEN NoCopies
                         ELSE [p \in Peers |->
                                 IF p \in BroadcastTargets(est, net, origin)
                                 THEN 1 ELSE 0]]

\* History: for every fingerprint, whether it has been inserted and the
\* other fingerprints inserted since it was.
NeverInserted == [h \in Fingerprints |-> [ins |-> FALSE, others |-> {}]]

Inserted(sn, h) ==
    [g \in Fingerprints |->
        IF g = h THEN [ins |-> TRUE, others |-> {}]
        ELSE IF sn[g].ins THEN [sn[g] EXCEPT !.others = @ \cup {h}]
        ELSE sn[g]]

Age(sn, h) == IF sn[h].ins THEN Cardinality(sn[h].others) ELSE -1

NoSend == [seq |-> 0, broadcast |-> FALSE, fp |-> 0, net |-> 100, origin |-> "self",
           seen |-> FALSE, age |-> -1, copies |-> NoCopies]

(***************************************************************************)
(* The bridge between the packet queue of the network and the consensus    *)
(* engine (the baker): the thread "Higher queue processing".               *)
(***************************************************************************)
PAYLOAD_TYPE_LENGTH == 2
SLOT == 8

\* The 2-byte consensus sub-types.
PACKET_TYPE ==
    [ CONSENSUS_BLOCK |-> 0, CONSENSUS_TRANSACTION |-> 1,
      CONSENSUS_FINALIZATION |-> 2, CONSENSUS_FINALIZATION_RECORD |-> 3,
      CONSENSUS_CATCHUP_REQUEST_BLOCK_BY_HASH |-> 4,
      CONSENSUS_CATCHUP_REQUEST_FINALIZATION_RECORD_BY_HASH |-> 5,
      CONSENSUS_CATCHUP_REQUEST_FINALIZATION_RECORD_BY_INDEX |-> 6,
      CONSENSUS_CATCHUP_REQUEST_FINALIZATION_BY_POINT |-> 7 ]

\* NetworkEndian::read_u16 / read_u64
RECURSIVE ReadBE(_)
ReadBE(b) ==
    IF b = <<>> THEN 0 ELSE ReadBE(SubSeq(b, 1, Len(b) - 1)) * 256 + b[Len(b)]

\* write_u16::<NetworkEndian>
WriteU16(n) == <<n \div 256, n % 256>>

\* write_u64::<NetworkEndian>
WriteU64(n) == <<0, 0, 0, 0>> \o WriteU32(n)

\* What the baker answers to a lookup: an error, or bytes whose leading
\* 8-byte field is zero when it does not have the item.
BakerErr == [err |-> TRUE, bytes |-> <<>>]
BakerMissing == [err |-> FALSE, bytes |-> WriteU64(0)]
BakerFound == [err |-> FALSE, bytes |-> WriteU64(1) \o <<5>>]
BakerAnswers == {BakerErr, BakerMissing, BakerFound}

\* The result of a handler of the bridge: what it returns ("Ok", "Err" or
\* "Panic"), the calls it made into the baker and its calls of send_message.
BridgeResult(ret, calls, sends) == [ret |-> ret, calls |-> calls, sends |-> sends]

SendArgs(target, net, bytes, broadcast) ==
    [target |-> target, net |-> net, bytes |-> bytes, broadcast |-> broadcast]

\* Block::deserialize up to the choice of the variant; des is the result of
\* RegularData::deserialize on the rest.
Block_deserialize(bytes, des) ==
    IF Len(bytes) < SLOT THEN "Err"
    ELSE IF ReadBE(Take(bytes, SLOT)) = 0 THEN "Panic"
    ELSE des

send_block_to_baker(content, des) ==
    LET b == Block_deserialize(content, des)
    IN  IF b = "Ok" THEN BridgeResult("Ok", <<"send_block">>, <<>>)
        ELSE BridgeResult(b, <<>>, <<>>)

send_transaction_to_baker(content) ==
    BridgeResult("Ok", <<"send_transaction">>, <<>>)

send_finalization_message_to_baker(content, des) ==
    IF des = "Ok" THEN BridgeResult("Ok", <<"send_finalization">>, <<>>)
    ELSE BridgeResult("Err", <<>>, <<>>)

send_finalization_record_to_baker(content, des) ==
    IF des = "Ok" THEN BridgeResult("Ok", <<"send_finalization_record">>, <<>>)
    ELSE BridgeResult("Err", <<>>, <<>>)

send_catchup_finalization_messages_by_point_to_baker(content, ans) ==
    IF ans.err THEN BridgeResult("Err", <<"get_finalization_messages">>, <<>>)
    ELSE BridgeResult("Ok", <<"get_finalization_messages">>, <<>>)

\* catchup_reply without the test of the leading field of the answer.
catchup_reply_always(call, res, reply_type, peer_id, network_id) ==
    IF res.err THEN BridgeResult("Err", <<call>>, <<>>)
    ELSE BridgeResult("Ok", <<call>>,
                      <<SendArgs(peer_id, network_id, WriteU16(reply_type) \o res.bytes, TRUE)>>)

\* The common tail of the three handlers of catch-up requests: res is the
\* answer of the baker.
catchup_reply(call, res, reply_type, peer_id, network_id) ==
    IF res.err THEN BridgeResult("Err", <<call>>, <<>>)
    ELSE IF Len(res.bytes) < 8 THEN BridgeResult("Panic", <<call>>, <<>>)
    ELSE IF ReadBE(Take(res.bytes, 8)) > 0
    THEN BridgeResult("Ok", <<call>>,
                      <<SendArgs(peer_id, network_id, WriteU16(reply_type) \o res.bytes, TRUE)>>)
    ELSE BridgeResult("Ok", <<call>>, <<>>)

send_catchup_request_finalization_record_by_index_to_baker(content, ans, peer_id, network_id) ==
    IF Len(content) < 8 THEN BridgeResult("Panic", <<>>, <<>>)
    ELSE catchup_reply("get_indexed_finalization", ans,
                       PACKET_TYPE.CONSENSUS_FINALIZATION_RECORD, peer_id, network_id)

send_catchup_request_finalization_record_by_bash_baker(content, ans, peer_id, network_id) ==
    catchup_reply("get_block_finalization", ans,
                  PACKET_TYPE.CONSENSUS_FINALIZATION_RECORD, peer_id, network_id)

send_catchup_request_block_by_bash_baker(content, ans, peer_id, network_id) ==
    catchup_reply("get_block", ans, PACKET_TYPE.CONSENSUS_BLOCK, peer_id, network_id)

\* send_msg_to_baker whose default arm hands the payload over as a transaction.
send_msg_to_baker_default_tx(has_baker, peer_id, network_id, msg, ans, des) ==
    IF ~has_baker THEN BridgeResult("Ok", <<>>, <<>>)
    ELSE IF Len(msg) < PAYLOAD_TYPE_LENGTH THEN BridgeResult("Err", <<>>, <<>>)
    ELSE send_transaction_to_baker(Drop(msg, PAYLOAD_TYPE_LENGTH))

send_msg_to_baker(has_baker, peer_id, network_id, msg, ans, des) ==
    IF ~has_baker THEN BridgeResult("Ok", <<>>, <<>>)
    ELSE IF Len(msg) < PAYLOAD_TYPE_LENGTH THEN BridgeResult("Err", <<>>, <<>>)
    ELSE LET consensus_type == ReadBE(Take(msg, PAYLOAD_TYPE_LENGTH))
             content == Drop(msg, PAYLOAD_TYPE_LENGTH)
         IN  CASE consensus_type = PACKET_TYPE.CONSENSUS_BLOCK ->
                    send_block_to_baker(content, des)
               [] consensus_type = PACKET_TYPE.CONSENSUS_TRANSACTION ->
                    send_transaction_to_baker(content)
               [] consensus_type = PACKET_TYPE.CONSENSUS_FINALIZATION ->
                    send_finalization_message_to_baker(content, des)
               [] consensus_type = PACKET_TYPE.CONSENSUS_FINALIZATION_RECORD ->
                    send_finalization_record_to_baker(content, des)
               [] consensus_type = PACKET_TYPE.CONSENSUS_CATCHUP_REQUEST_BLOCK_BY_HASH ->
                    send_catchup_request_block_by_bash_baker(content, ans, peer_id, network_id)
               [] consensus_type = PACKET_TYPE.CONSENSUS_CATCHUP_REQUEST_FINALIZATION_RECORD_BY_HASH ->
                    send_catchup_request_finalization_record_by_bash_baker(content, ans, peer_id, network_id)
               [] consensus_type = PACKET_TYPE.CONSENSUS_CATCHUP_REQUEST_FINALIZATION_RECORD_BY_INDEX ->
                    send_catchup_request_finalization_record_by_index_to_baker(content, ans, peer_id, network_id)
               [] consensus_type = PACKET_TYPE.CONSENSUS_CATCHUP_REQUEST_FINALIZATION_BY_POINT ->
                    send_catchup_finalization_messages_by_point_to_baker(content, ans)
               [] OTHER -> BridgeResult("Ok", <<>>, <<>>)

\* One turn of the loop of the bridge on the message full_msg: the error of
\* send_msg_to_baker is logged, a Retransmit request panics.
bridge_process(full_msg, network_id, ans, des) ==
    IF full_msg.cat = "Packet"
    THEN LET r == send_msg_to_baker(TRUE, full_msg.peer, network_id, full_msg.message, ans, des)
         IN  IF r.ret = "Err" THEN BridgeResult("Ok", r.calls, r.sends) ELSE r
    ELSE IF full_msg.cat = "Request" /\ full_msg.kind = "Retransmit"
    THEN BridgeResult("Panic", <<>>, <<>>)
    ELSE BridgeResult("Ok", <<>>, <<>>)

(***************************************************************************)
(* The codec of blocks (concordium-global-state).  A read from the cursor  *)
(* gives a record: ok, the value read and the bytes left in the cursor.    *)
(***************************************************************************)
\* size_of::<BlockHash>()
BLOCK_HASH_LENGTH == 32
\* ec_vrf_ed25519::PROOF_LENGTH
PROOF_LENGTH == 80
\* const NONCE: u8 = PROOF_LENGTH as u8
NONCE == PROOF_LENGTH % 256
TX_ALLOC_LIMIT == 256 * 1024
\* the limits of read_bytestring_short_length and read_bytestring
SHORT_LENGTH_LIMIT == 1024
LONG_LENGTH_LIMIT == 64 * 1024

ReadFail == [ok |-> FALSE, val |-> <<>>, rest |-> <<>>]

\* read_ty!, read_const_sized!, read_sized!: the next n bytes of the cursor
ReadExact(buf, n) ==
    IF Len(buf) >= n THEN [ok |-> TRUE, val |-> Take(buf, n), rest |-> Drop(buf, n)]
    ELSE ReadFail

\* safe_get_len!: a length of len_size bytes, refused above the limit (a
\* limit is below 2^24: a length with a byte above its low three is above it)
safe_get_len(buf, len_size, limit) ==
    Let(ReadExact(buf, len_size), LAMBDA l :
        IF ~l.ok THEN ReadFail
        ELSE IF \E i \in 1..(len_size - 3) : l.val[i] # 0 THEN ReadFail
        ELSE Let(ReadBE(l.val), LAMBDA n :
                 IF n > limit THEN ReadFail
                 ELSE [ok |-> TRUE, val |-> n, rest |-> l.rest]))

read_bytestring_short_length(buf) ==
    Let(safe_get_len(buf, 2, SHORT_LENGTH_LIMIT), LAMBDA l :
        IF ~l.ok THEN ReadFail ELSE ReadExact(l.rest, l.val))

read_bytestring(buf) ==
    Let(safe_get_len(buf, 8, LONG_LENGTH_LIMIT), LAMBDA l :
        IF ~l.ok THEN ReadFail ELSE ReadExact(l.rest, l.val))

MEDIUM_LENGTH_LIMIT == 4 * 1024

\* read_bytestring_medium
read_bytestring_medium(buf) ==
    Let(safe_get_len(buf, 4, MEDIUM_LENGTH_LIMIT), LAMBDA l :
        IF ~l.ok THEN ReadFail ELSE ReadExact(l.rest, l.val))

write_bytestring_short_length(bytes) == WriteU16(Len(bytes) % 65536) \o bytes

write_bytestring(bytes) == WriteU64(Len(bytes)) \o bytes

\* FullTransaction: a bare transaction, of which the model keeps the
\* signature bytestring, and the time of arrival.
FullTransaction_deserialize(buf) ==
    Let(read_bytestring(buf), LAMBDA sig :
        IF ~sig.ok THEN ReadFail
        ELSE Let(ReadExact(sig.rest, 8), LAMBDA arrival :
                 IF ~arrival.ok THEN ReadFail
                 ELSE [ok |-> TRUE,
                       val |-> [signature |-> sig.val, arrival |-> ReadBE(arrival.val)],
                       rest |-> arrival.rest]))

FullTransaction_serial(tx) == write_bytestring(tx.signature) \o WriteU64(tx.arrival)

\* read_multiple!(cursor, FullTransaction::deserialize(cursor)?, 8, TX_ALLOC_LIMIT)
RECURSIVE read_transactions(_, _)
read_transactions(buf, n) ==
    IF n = 0 THEN [ok |-> TRUE, val |-> <<>>, rest |-> buf]
    ELSE Let(FullTransaction_deserialize(buf), LAMBDA tx :
             IF ~tx.ok THEN ReadFail
             ELSE Let(read_transactions(tx.rest, n - 1), LAMBDA more :
                      IF ~more.ok THEN ReadFail
                      ELSE [ok |-> TRUE, val |-> <<tx.val>> \o more.val,
                            rest |-> more.rest]))

read_multiple(buf) ==
    Let(safe_get_len(buf, 8, TX_ALLOC_LIMIT), LAMBDA count :
        IF ~count.ok THEN ReadFail ELSE read_transactions(count.rest, count.val))

\* The bytes of a sequence of writes, one after the other.
RECURSIVE FlattenWrites(_)
FlattenWrites(ws) == IF ws = <<>> THEN <<>> ELSE Head(ws) \o FlattenWrites(Tail(ws))

\* serialize_list
serialize_list(list) == [i \in 1..Len(list) |-> FullTransaction_serial(list[i])]

\* write_multiple!(target, list, Write::write_all): the count, then the elements
write_multiple(list) == WriteU64(Len(list)) \o FlattenWrites(list)

\* BlockData::deserialize
BlockData_deserialize(buf, slot) ==
    IF slot = 0
    THEN [ok |-> TRUE, val |-> [variant |-> "Genesis", data |-> buf], rest |-> <<>>]
    ELSE
    Let(ReadExact(buf, BLOCK_HASH_LENGTH), LAMBDA pointer :
    IF ~pointer.ok THEN ReadFail ELSE
    Let(ReadExact(pointer.rest, 8), LAMBDA baker_id :
    IF ~baker_id.ok THEN ReadFail ELSE
    Let(ReadExact(baker_id.rest, PROOF_LENGTH), LAMBDA proof :
    IF ~proof.ok THEN ReadFail ELSE
    Let(ReadExact(proof.rest, NONCE), LAMBDA nonce :
    IF ~nonce.ok THEN ReadFail ELSE
    Let(ReadExact(nonce.rest, BLOCK_HASH_LENGTH), LAMBDA last_finalized :
    IF ~last_finalized.ok THEN ReadFail ELSE
    Let(read_multiple(last_finalized.rest), LAMBDA transactions :
    IF ~transactions.ok THEN ReadFail ELSE
    Let(read_bytestring_short_length(transactions.rest), LAMBDA signature :
    IF ~signature.ok THEN ReadFail ELSE
    [ok |-> TRUE,
     val |-> [variant |-> "Regular",
              pointer |-> pointer.val,
              baker_id |-> ReadBE(baker_id.val),
              proof |-> proof.val,
              nonce |-> nonce.val,
              last_finalized |-> last_finalized.val,
              transactions |-> write_multiple(serialize_list(transactions.val)),
              signature |-> signature.val],
     rest |-> signature.rest])))))))

\* A serializer that writes the nonce before the proof.
BlockData_serial_nonce_first(data) ==
    IF data.variant = "Genesis" THEN data.data
    ELSE data.pointer \o WriteU64(data.baker_id) \o data.nonce \o data.proof
             \o data.last_finalized \o data.transactions
             \o write_bytestring_short_length(data.signature)

\* BlockData::serial
BlockData_serial(data) ==
    IF data.variant = "Genesis" THEN data.data
    ELSE data.pointer \o WriteU64(data.baker_id) \o data.proof \o data.nonce
             \o data.last_finalized \o data.transactions
             \o write_bytestring_short_length(data.signature)

\* Block::deserialize (concordium-global-state)
GlobalState_Block_deserialize(bytes) ==
    Let(ReadExact(bytes, 8), LAMBDA slot :
        IF ~slot.ok THEN ReadFail
        ELSE Let(BlockData_deserialize(slot.rest, ReadBE(slot.val)), LAMBDA data :
                 IF ~data.ok THEN ReadFail
                 ELSE [ok |-> TRUE,
                       val |-> [slot |-> ReadBE(slot.val), data |-> data.val],
                       rest |-> data.rest]))

\* Block::serial (concordium-global-state)
GlobalState_Block_serial(block) == WriteU64(block.slot) \o BlockData_serial(block.data)

\* An Option: None, or Some(val).
None == [some |-> FALSE, val |-> <<>>]
Some(val) == [some |-> TRUE, val |-> val]

\* A pointer() that takes every block for a regular one.
Block_pointer_always_some(block) ==
    IF block.data.variant = "Genesis" THEN Some(<<>>) ELSE Some(block.data.pointer)

\* Block::pointer
Block_pointer(block) ==
    IF block.data.variant = "Genesis" THEN None ELSE Some(block.data.pointer)

\* Block::last_finalized
Block_last_finalized(block) ==
    IF block.data.variant = "Genesis" THEN None ELSE Some(block.data.last_finalized)

(***************************************************************************)
(* The codec of blocks of the consensus crate (concordium-consensus).      *)
(* The result of a deserialization is "Ok", "Err" or "Panic".              *)
(***************************************************************************)
BLOCK_HASH == BLOCK_HASH_LENGTH
POINTER == BLOCK_HASH
BAKER_ID == 8
\* const NONCE: usize = BLOCK_HASH + PROOF_LENGTH (concordium-consensus)
Consensus_NONCE == BLOCK_HASH + PROOF_LENGTH
LAST_FINALIZED == BLOCK_HASH
SIGNATURE == 64 + 8

Builds == {"debug", "release"}

ConsensusRead(ret, val) == [ok |-> ret = "Ok", ret |-> ret, val |-> val, rest |-> <<>>]

\* Transactions::deserialize: the list of the transactions of a block.
Transactions_deserialize(bytes) == read_multiple(bytes)

\* Transactions::serialize
Transactions_serialize(bytes) == bytes

\* RegularData::deserialize; build says whether the subtraction that
\* computes payload_size is checked (debug) or wraps (release).
RegularData_deserialize(bytes, build) ==
    Let(ReadExact(bytes, POINTER), LAMBDA pointer :
    IF ~pointer.ok THEN ConsensusRead("Err", <<>>) ELSE
    Let(ReadExact(pointer.rest, BAKER_ID), LAMBDA baker_id :
    IF ~baker_id.ok THEN ConsensusRead("Err", <<>>) ELSE
    Let(ReadExact(baker_id.rest, PROOF_LENGTH), LAMBDA proof :
    IF ~proof.ok THEN ConsensusRead("Err", <<>>) ELSE
    Let(ReadExact(proof.rest, Consensus_NONCE), LAMBDA nonce :
    IF ~nonce.ok THEN ConsensusRead("Err", <<>>) ELSE
    Let(ReadExact(nonce.rest, BLOCK_HASH), LAMBDA last_finalized :
    IF ~last_finalized.ok THEN ConsensusRead("Err", <<>>) ELSE
    IF Len(last_finalized.rest) < SIGNATURE
    THEN ConsensusRead(IF build = "debug" THEN "Panic" ELSE "Err", <<>>) ELSE
    Let(Len(last_finalized.rest) - SIGNATURE, LAMBDA payload_size :
    Let(Transactions_deserialize(Take(last_finalized.rest, payload_size)),
        LAMBDA transactions :
    IF ~transactions.ok THEN ConsensusRead("Err", <<>>) ELSE
    ConsensusRead("Ok",
        [variant |-> "Regular",
         pointer |-> pointer.val,
         baker_id |-> ReadBE(baker_id.val),
         proof |-> proof.val,
         nonce |-> nonce.val,
         last_finalized |-> last_finalized.val,
         transactions |-> Take(last_finalized.rest, payload_size),
         signature |-> Drop(last_finalized.rest, payload_size)]))))))))

\* RegularData::serialize
RegularData_serialize(data) ==
    data.pointer \o WriteU64(data.baker_id) \o data.proof \o data.nonce
        \o data.last_finalized \o Transactions_serialize(data.transactions)
        \o data.signature

\* Block::deserialize (concordium-consensus)
Consensus_Block_deserialize(bytes, build) ==
    Let(ReadExact(bytes, SLOT), LAMBDA slot :
        IF ~slot.ok THEN ConsensusRead("Err", <<>>)
        ELSE IF ReadBE(slot.val) = 0 THEN ConsensusRead("Panic", <<>>)
        ELSE Let(RegularData_deserialize(slot.rest, build), LAMBDA data :
                 IF ~data.ok THEN data
                 ELSE ConsensusRead("Ok", [slot |-> ReadBE(slot.val), data |-> data.val])))

\* Block::serialize (concordium-consensus), of a regular block
Consensus_Block_serialize(block) == WriteU64(block.slot) \o RegularData_serialize(block.data)

(***************************************************************************)
(* The codec of transactions (concordium-global-state).  The result of a   *)
(* deserialization says how it ended ("Ok", "Err", "Panic"), at which step *)
(* (stage), the value and the bytes left in the cursor.                    *)
(***************************************************************************)
PAYLOAD_MAX_LEN == 512 * 1024 * 1024
\* size_of::<AccountAddress>() and the size of a serialized ContractAddress
ACCOUNT_ADDRESS_LENGTH == 21
CONTRACT_ADDRESS_LENGTH == 16
\* the values of SchemeId
SchemeIds == {0, 1}

TxRead(ret, stage, val, rest) ==
    [ok |-> ret = "Ok", ret |-> ret, stage |-> stage, val |-> val, rest |-> rest]

\* sha256: distinct inputs are kept distinct
sha256(bytes) == <<"sha256", bytes>>

\* A nonce check that accepts every value.
Nonce_try_from_any(raw) == [ok |-> TRUE, val |-> raw]

\* Nonce::try_from
Nonce_try_from(raw) == IF raw # 0 THEN [ok |-> TRUE, val |-> raw] ELSE [ok |-> FALSE, val |-> 0]

\* TransactionType::try_from
TransactionType_try_from(id) ==
    IF id \in 0..9
    THEN [ok |-> TRUE,
          val |-> << "DeployModule", "InitContract", "Update", "Transfer",
                     "DeployCredentials", "DeployEncryptionKey", "AddBaker", "RemoveBaker",
                     "UpdateBakerAccount", "UpdateBakerSignKey" >>[id + 1]]
    ELSE [ok |-> FALSE, val |-> "None"]

\* TransactionHeader::deserialize
TransactionHeader_deserialize(buf) ==
    Let(ReadExact(buf, 1), LAMBDA scheme_id :
    IF ~scheme_id.ok \/ scheme_id.val[1] \notin SchemeIds
    THEN TxRead("Err", "scheme_id", <<>>, <<>>) ELSE
    Let(read_bytestring(scheme_id.rest), LAMBDA sender_key :
    IF ~sender_key.ok THEN TxRead("Err", "sender_key", <<>>, <<>>) ELSE
    Let(ReadExact(sender_key.rest, 8), LAMBDA nonce_raw :
    IF ~nonce_raw.ok THEN TxRead("Err", "nonce", <<>>, <<>>) ELSE
    Let(Nonce_try_from(ReadBE(nonce_raw.val)), LAMBDA nonce :
    IF ~nonce.ok THEN TxRead("Err", "nonce_check", <<>>, <<>>) ELSE
    Let(ReadExact(nonce_raw.rest, 8), LAMBDA gas_amount :
    IF ~gas_amount.ok THEN TxRead("Err", "gas_amount", <<>>, <<>>) ELSE
    Let(ReadExact(gas_amount.rest, BLOCK_HASH_LENGTH), LAMBDA finalized_ptr :
    IF ~finalized_ptr.ok THEN TxRead("Err", "finalized_ptr", <<>>, <<>>) ELSE
    TxRead("Ok", "done",
           [scheme_id |-> scheme_id.val[1], sender_key |-> sender_key.val,
            nonce |-> nonce.val, gas_amount |-> ReadBE(gas_amount.val),
            finalized_ptr |-> finalized_ptr.val,
            sender_account |-> <<"account", sender_key.val, scheme_id.val[1]>>],
           finalized_ptr.rest)))))))

\* TransactionHeader::serialize
TransactionHeader_serialize(header) ==
    <<header.scheme_id>> \o write_bytestring(header.sender_key) \o WriteU64(header.nonce)
        \o WriteU64(header.gas_amount) \o header.finalized_ptr

\* read_sized!(cursor, len - k) of a payload: len - k underflows below k
ReadPayloadRest(buf, len, k, build) ==
    IF len < k THEN [ok |-> FALSE, panic |-> build = "debug", val |-> <<>>, rest |-> <<>>]
    ELSE Let(ReadExact(buf, len - k), LAMBDA r :
             [ok |-> r.ok, panic |-> FALSE, val |-> r.val, rest |-> r.rest])

\* TransactionPayload::deserialize((cursor, len))
TransactionPayload_deserialize(buf, len, build) ==
    Let(ReadExact(buf, 1), LAMBDA tag :
    IF ~tag.ok THEN TxRead("Err", "payload", <<>>, <<>>) ELSE
    Let(TransactionType_try_from(tag.val[1]), LAMBDA variant :
    IF ~variant.ok THEN TxRead("Err", "payload", <<>>, <<>>)
    ELSE IF variant.val = "DeployModule"
    THEN Let(ReadPayloadRest(tag.rest, len, 1, build), LAMBDA module :
             IF module.panic THEN TxRead("Panic", "payload", <<>>, <<>>)
             ELSE IF ~module.ok THEN TxRead("Err", "payload", <<>>, <<>>)
             ELSE TxRead("Ok", "done", [type |-> 0, fixed |-> <<>>, tail |-> module.val],
                         module.rest))
    ELSE IF variant.val = "InitContract"
    THEN Let(ReadExact(tag.rest, 8 + BLOCK_HASH_LENGTH + 4), LAMBDA fixed :
             IF ~fixed.ok \/ len < 1 + 8 + BLOCK_HASH_LENGTH + 4
             THEN TxRead("Err", "payload", <<>>, <<>>)
             ELSE Let(ReadExact(fixed.rest, len - (1 + 8 + BLOCK_HASH_LENGTH + 4)),
                      LAMBDA param :
                      IF ~param.ok THEN TxRead("Err", "payload", <<>>, <<>>)
                      ELSE TxRead("Ok", "done",
                                  [type |-> 1, fixed |-> fixed.val, tail |-> param.val],
                                  param.rest)))
    ELSE IF variant.val = "Update"
    THEN Let(ReadExact(tag.rest, 8 + CONTRACT_ADDRESS_LENGTH), LAMBDA fixed :
             IF ~fixed.ok \/ len < 1 + 8 + CONTRACT_ADDRESS_LENGTH
             THEN TxRead("Err", "payload", <<>>, <<>>)
             ELSE Let(ReadExact(fixed.rest, len - (1 + 8 + CONTRACT_ADDRESS_LENGTH)),
                      LAMBDA message :
                      IF ~message.ok THEN TxRead("Err", "payload", <<>>, <<>>)
                      ELSE TxRead("Ok", "done",
                                  [type |-> 2, fixed |-> fixed.val, tail |-> message.val],
                                  message.rest)))
    ELSE IF variant.val = "Transfer"
    THEN Let(ReadExact(tag.rest, 1 + ACCOUNT_ADDRESS_LENGTH + 8), LAMBDA fixed :
             IF ~fixed.ok \/ fixed.val[1] \notin SchemeIds
             THEN TxRead("Err", "payload", <<>>, <<>>)
             ELSE TxRead("Ok", "done", [type |-> 3, fixed |-> fixed.val, tail |-> <<>>],
                         fixed.rest))
    ELSE TxRead("Panic", "payload", <<>>, <<>>)))

\* TransactionPayload::serialize
TransactionPayload_serialize(payload) == <<payload.type>> \o payload.fixed \o payload.tail

\* A Transaction::deserialize that reads the payload before it checks its length.
Transaction_deserialize_late_check(buf, build) ==
    Let(read_bytestring(buf), LAMBDA signature :
    IF ~signature.ok THEN TxRead("Err", "signature", <<>>, <<>>) ELSE
    Let(TransactionHeader_deserialize(signature.rest), LAMBDA header :
    IF ~header.ok THEN TxRead("Err", header.stage, <<>>, <<>>) ELSE
    Let(ReadExact(header.rest, 4), LAMBDA payload_len :
    IF ~payload_len.ok THEN TxRead("Err", "payload_len", <<>>, <<>>) ELSE
    Let(TransactionPayload_deserialize(payload_len.rest, ReadBE(payload_len.val), build),
        LAMBDA payload : payload))))

\* Transaction::deserialize
Transaction_deserialize(buf, build) ==
    Let(read_bytestring(buf), LAMBDA signature :
    IF ~signature.ok THEN TxRead("Err", "signature", <<>>, <<>>) ELSE
    Let(TransactionHeader_deserialize(signature.rest), LAMBDA header :
    IF ~header.ok THEN TxRead("Err", header.stage, <<>>, <<>>) ELSE
    Let(ReadExact(header.rest, 4), LAMBDA payload_len :
    IF ~payload_len.ok THEN TxRead("Err", "payload_len", <<>>, <<>>) ELSE
    IF ReadBE(payload_len.val) > PAYLOAD_MAX_LEN
    THEN TxRead("Err", "payload_max_len", <<>>, payload_len.rest) ELSE
    Let(TransactionPayload_deserialize(payload_len.rest, ReadBE(payload_len.val), build),
        LAMBDA payload :
    IF ~payload.ok THEN TxRead(payload.ret, "payload", <<>>, <<>>) ELSE
    TxRead("Ok", "done",
           [signature |-> signature.val, header |-> header.val, payload |-> payload.val,
            hash |-> sha256(Take(buf, Len(buf) - Len(payload.rest)))],
           payload.rest)))))

\* Transaction::serialize
Transaction_serialize(tx) ==
    Let(TransactionPayload_serialize(tx.payload), LAMBDA payload :
        write_bytestring(tx.signature) \o TransactionHeader_serialize(tx.header)
            \o WriteU32(Len(payload)) \o payload)

\* Account::deserialize up to the check of the nonce
Account_deserialize(buf) ==
    Let(ReadExact(buf, ACCOUNT_ADDRESS_LENGTH), LAMBDA address :
    IF ~address.ok THEN TxRead("Err", "address", <<>>, <<>>) ELSE
    Let(ReadExact(address.rest, 8), LAMBDA nonce_raw :
    IF ~nonce_raw.ok THEN TxRead("Err", "nonce", <<>>, <<>>) ELSE
    Let(Nonce_try_from(ReadBE(nonce_raw.val)), LAMBDA nonce :
    IF ~nonce.ok THEN TxRead("Err", "nonce_check", <<>>, <<>>)
    ELSE TxRead("Ok", "amount", [address |-> address.val, nonce |-> nonce.val],
                nonce_raw.rest))))

(***************************************************************************)
(* The codec of CatchUpStatus (concordium-global-state).                   *)
(***************************************************************************)
\* the largest count of finalization justifiers that deserial accepts
JUSTIFIERS_LIMIT == 1024

\* read_multiple!(source, BlockHash::from(read_ty!(source, BlockHash)), 4, 1024)
read_justifiers(buf) ==
    Let(safe_get_len(buf, 4, JUSTIFIERS_LIMIT), LAMBDA count :
        IF ~count.ok \/ Len(count.rest) < BLOCK_HASH_LENGTH * count.val THEN ReadFail
        ELSE [ok |-> TRUE,
              val |-> [i \in 1..count.val |->
                         SubSeq(count.rest, BLOCK_HASH_LENGTH * (i - 1) + 1,
                                BLOCK_HASH_LENGTH * i)],
              rest |-> Drop(count.rest, BLOCK_HASH_LENGTH * count.val)])

\* CatchUpStatus::deserial
CatchUpStatus_deserial(buf) ==
    Let(ReadExact(buf, 1), LAMBDA is_request :
    IF ~is_request.ok THEN ReadFail ELSE
    Let(ReadExact(is_request.rest, BLOCK_HASH_LENGTH), LAMBDA last_finalized_block :
    IF ~last_finalized_block.ok THEN ReadFail ELSE
    Let(ReadExact(last_finalized_block.rest, 8), LAMBDA last_finalized_height :
    IF ~last_finalized_height.ok THEN ReadFail ELSE
    Let(ReadExact(last_finalized_height.rest, BLOCK_HASH_LENGTH), LAMBDA best_block :
    IF ~best_block.ok THEN ReadFail ELSE
    Let(read_justifiers(best_block.rest), LAMBDA finalization_justifiers :
    IF ~finalization_justifiers.ok THEN ReadFail ELSE
    [ok |-> TRUE,
     val |-> [is_request |-> is_request.val[1] # 0,
              last_finalized_block |-> last_finalized_block.val,
              last_finalized_height |-> ReadBE(last_finalized_height.val),
              best_block |-> best_block.val,
              finalization_justifiers |-> finalization_justifiers.val],
     rest |-> finalization_justifiers.rest])))))

\* for fj in justifiers { target.write_all(fj) }: the hashes one after the other
WriteHashes(hashes) ==
    [k \in 1..(BLOCK_HASH_LENGTH * Len(hashes)) |->
        hashes[((k - 1) \div BLOCK_HASH_LENGTH) + 1][((k - 1) % BLOCK_HASH_LENGTH) + 1]]

\* CatchUpStatus::serial
CatchUpStatus_serial(status) ==
    <<IF status.is_request THEN 1 ELSE 0>> \o status.last_finalized_block
        \o WriteU64(status.last_finalized_height) \o status.best_block
        \o WriteU32(Len(status.finalization_justifiers))
        \o WriteHashes(status.finalization_justifiers)

(***************************************************************************)
(* The hash of a pending block (concordium-global-state).                  *)
(***************************************************************************)
\* bare_transaction.serial of a FullTransaction: the transaction without the
\* time of its arrival
BareTransaction_serial(tx) == write_bytestring(tx.signature)

\* transform_txs
transform_txs(source) ==
    Let(read_multiple(source), LAMBDA txs :
        IF ~txs.ok THEN ReadFail
        ELSE [ok |-> TRUE,
              val |-> [i \in 1..Len(txs.val) |-> BareTransaction_serial(txs.val[i])],
              rest |-> txs.rest])

\* A hash_without_timestamps that leaves the signature out of the hash.
hash_without_timestamps_no_signature(block) ==
    Let(transform_txs(block.data.transactions), LAMBDA transactions :
        IF ~transactions.ok THEN [ok |-> FALSE, val |-> <<>>]
        ELSE [ok |-> TRUE,
              val |-> sha256(WriteU64(block.slot) \o block.data.pointer
                             \o WriteU64(block.data.baker_id) \o block.data.proof
                             \o block.data.nonce \o block.data.last_finalized
                             \o write_multiple(transactions.val))])

\* hash_without_timestamps of a regular block
hash_without_timestamps(block) ==
    Let(transform_txs(block.data.transactions), LAMBDA transactions :
        IF ~transactions.ok THEN [ok |-> FALSE, val |-> <<>>]
        ELSE [ok |-> TRUE,
              val |-> sha256(WriteU64(block.slot) \o block.data.pointer
                             \o WriteU64(block.data.baker_id) \o block.data.proof
                             \o block.data.nonce \o block.data.last_finalized
                             \o write_multiple(transactions.val)
                             \o write_bytestring_short_length(block.data.signature))])

\* PendingBlock::new; hash_without_timestamps of a genesis block is unreachable!()
PendingBlock_new(bytes) ==
    Let(GlobalState_Block_deserialize(bytes), LAMBDA block :
        IF ~block.ok THEN [ret |-> "Err", hash |-> <<>>, block |-> <<>>]
        ELSE IF block.val.data.variant # "Regular"
        THEN [ret |-> "Panic", hash |-> <<>>, block |-> <<>>]
        ELSE Let(hash_without_timestamps(block.val), LAMBDA hash :
                 [ret |-> IF hash.ok THEN "Ok" ELSE "Err", hash |-> hash.val,
                  block |-> block.val]))

(***************************************************************************)
(* The buckets of known peers and the peer list of the bootstrapper.  A    *)
(* peer is [id, networks]; a list of peers is kept as a bag, so that a     *)
(* peer that is returned twice is seen.                                    *)
(***************************************************************************)
BOOTSTRAP_PEER_COUNT == 100

\* the subsets of S with k elements
RECURSIVE KSubsets(_, _)
KSubsets(S, k) ==
    IF k = 0 THEN {{}}
    ELSE UNION { { T \cup {x} : T \in KSubsets(S \ {x}, k - 1) } : x \in S }

\* the samples of n elements of S, drawn without replacement
Samples(S, n) ==
    IF n >= Cardinality(S) THEN {S}
    ELSE IF Cardinality(S) - n < n THEN { S \ D : D \in KSubsets(S, Cardinality(S) - n) }
    ELSE KSubsets(S, n)

\* A get_random_nodes that does not leave the excluded peer out.
get_random_nodes_with_excluded(buckets, exclude, count, networks) ==
    LET candidates == { p \in buckets : p.networks \cap networks # {} }
        n == IF count < Cardinality(candidates) THEN count ELSE Cardinality(candidates)
    IN  { SetToBag(T) : T \in Samples(candidates, n) }

\* Buckets::get_random_nodes: the lists it may return
get_random_nodes(buckets, exclude, count, networks) ==
    LET candidates == { p \in buckets : p.id # exclude /\ p.networks \cap networks # {} }
        n == IF count < Cardinality(candidates) THEN count ELSE Cardinality(candidates)
    IN  { SetToBag(T) : T \in Samples(candidates, n) }

(***************************************************************************)
(* The callbacks of the two handler tables of a connection, by category of *)
(* the message, in the order of their registration.                        *)
(***************************************************************************)
\* setup_handshake_handler
HandshakeCallbacks ==
    [general  |-> <<"common_message_handler">>,
     request  |-> <<"handshake_request_handle">>,
     response |-> <<"handshake_response_handle">>,
     packet   |-> <<>>,
     unknown  |-> <<>>,
     invalid  |-> <<>>]

\* A full table whose packets do not update last-seen.
EstablishedCallbacks_packets_unseen ==
    [general  |-> <<"common_message_handler">>,
     request  |-> <<"request_handler">>,
     response |-> <<"response_handler", "update_last_seen">>,
     packet   |-> <<>>,
     unknown  |-> <<"default_unknown_message">>,
     invalid  |-> <<"default_invalid_message">>]

\* setup_message_handler
EstablishedCallbacks ==
    [general  |-> <<"common_message_handler">>,
     request  |-> <<"request_handler">>,
     response |-> <<"response_handler", "update_last_seen">>,
     packet   |-> <<"update_last_seen">>,
     unknown  |-> <<"default_unknown_message">>,
     invalid  |-> <<"default_invalid_message">>]

CallbacksOf(handlers) ==
    IF handlers = "handshake" THEN HandshakeCallbacks ELSE EstablishedCallbacks

\* make_request_handler: the kinds of request whose chain ends with the
\* update of last-seen
RequestKindsSeen == {"BanNode", "UnbanNode", "JoinNetwork", "LeaveNetwork"}

\* MessageHandler::process_message: the callbacks that are called for msg, the
\* general ones and then all those of its category, whatever they return
CalledCallbacks(table, msg) ==
    table.general \o
    (IF msg.cat = "Request" THEN table.request
     ELSE IF msg.cat = "Response" THEN table.response
     ELSE IF msg.cat = "Packet" THEN table.packet
     ELSE IF msg.cat = "Unknown" THEN table.unknown
     ELSE table.invalid)

\* some callback that is called for msg updates last-seen
UpdatesLastSeen(called, msg) ==
    \/ \E i \in 1..Len(called) : called[i] = "update_last_seen"
    \/ /\ \E i \in 1..Len(called) : called[i] = "request_handler"
       /\ msg.kind \in RequestKindsSeen

VARIABLES conn, items, rest, tls, last, queue, established, since, lastSend,
          pkt_queue, bridge_alive, arrivals, baker_calls, bridge_last,
          main_pc, needed_peers, handshaken, by_point, out_queue, worker_sent, emitted, hs, codec,
          peer_list, dispatch, outbound, peer_resp, startup

connVars == <<conn, items, rest, tls, last>>
nodeVars == <<queue, established, since, lastSend>>
bridgeVars == <<pkt_queue, bridge_alive, arrivals, baker_calls, bridge_last>>
vars == <<conn, items, rest, tls, last, queue, established, since, lastSend,
          pkt_queue, bridge_alive, arrivals, baker_calls, bridge_last,
          main_pc, needed_peers, handshaken, by_point, out_queue, worker_sent, emitted, hs, codec,
          peer_list, dispatch, outbound, peer_resp, startup>>

cliVars == <<peer_resp, startup>>

mainVars == <<main_pc, needed_peers, handshaken, by_point, out_queue, worker_sent, emitted>>

\* The queues of the baker towards the network.
OutQueues == {"block", "finalization", "finalization_record", "catchup", "finalization_catchup"}

InitMainIdle ==
    /\ main_pc = "wait"
    /\ needed_peers = 0
    /\ handshaken = {}
    /\ by_point = [p \in Peers |-> 0]
    /\ out_queue = [q \in OutQueues |-> <<>>]
    /\ worker_sent = [q \in OutQueues |-> <<>>]
    /\ emitted = 0

\* No call of send_handshake_and_ping.
NoHandshake == [pc |-> "idle", payload |-> <<>>, written |-> <<>>, read |-> 0,
                counter |-> 0, before |-> 0]

InitHandshakeIdle == hs = NoHandshake

\* No conversion of a block.
NoCodec == [phase |-> "idle", v |-> <<>>, b |-> <<>>, read |-> ReadFail, out |-> <<>>]

InitCodecIdle == codec = NoCodec

\* No peer list has been asked for.
NoPeerList ==
    [pc |-> "idle", buckets |-> {}, exclude |-> 0, count |-> 0, networks |-> {},
     nodes |-> EmptyBag, reply |-> <<>>, counter |-> 0]

InitPeerListIdle == peer_list = NoPeerList

\* No message has been dispatched.
NoDispatch == [msg |-> [cat |-> "None", kind |-> "None"], pre |-> "None", called |-> <<>>,
               seen_before |-> 0, at |-> 0, res |-> "None"]

IdleDispatch ==
    [status |-> "Untrusted", handlers |-> "handshake", closing |-> FALSE, last_seen |-> 0,
     now |-> 0, dispatched |-> 0, last |-> NoDispatch]

InitDispatchIdle == dispatch = IdleDispatch

\* Nothing has been passed to serialize_bytes.
NoCall == [side |-> "None", pkt |-> <<>>, ret |-> "None", wrote |-> <<>>, flushed |-> FALSE,
           sent_before |-> 0]

IdleOutbound ==
    [session |-> <<>>, socket |-> <<>>, closing |-> FALSE, messages_sent |-> 0, passed |-> 0,
     last |-> NoCall]

InitOutboundIdle == outbound = IdleOutbound

\* No PeerList response has been processed.
NoPeerResp ==
    [pc |-> "idle", peer_count |-> 0, desired_nodes |-> 0, results |-> <<>>,
     connects |-> 0, new_peers |-> 0, panicked |-> FALSE]

\* main has not started.
NoStartup ==
    [pc |-> "idle", persisted |-> {}, has_banlist |-> FALSE, todo |-> <<>>, banned |-> {},
     spawned |-> FALSE, no_network |-> FALSE, no_bootstrap_dns |-> FALSE,
     initiated |-> {}, accepted |-> {}, refused |-> {}]

InitCliIdle ==
    /\ peer_resp = NoPeerResp
    /\ startup = NoStartup

NoBridgeStep == [seq |-> 0, msg |-> [n |-> 0, peer |-> "None", cat |-> "None", kind |-> "None",
                                     message |-> <<>>, wire |-> <<>>],
                 baker_ret |-> "None", calls |-> <<>>, sends |-> <<>>, copies |-> <<>>,
                 answer |-> [err |-> FALSE, bytes |-> <<>>], queue_before |-> <<>>]

InitBridgeIdle ==
    /\ pkt_queue = <<>>
    /\ bridge_alive = TRUE
    /\ arrivals = 0
    /\ baker_calls = <<>>
    /\ bridge_last = NoBridgeStep

InitNode ==
    /\ queue = CircularQueue_with_capacity
    /\ established = {}
    /\ since = NeverInserted
    /\ lastSend = NoSend
    /\ InitBridgeIdle
    /\ InitMainIdle
    /\ InitHandshakeIdle
    /\ InitPeerListIdle
    /\ InitDispatchIdle
    /\ InitOutboundIdle
    /\ InitCliIdle
    /\ InitCodecIdle

(***************************************************************************)
(* Spec: the framer.  A peer's stream reaches incoming_plaintext in        *)
(* arbitrary non-empty chunks.                                             *)
(***************************************************************************)
Init ==
    /\ \E pt \in PeerTypes : conn = Connection_new(pt)
    /\ items \in ItemSeqs
    /\ rest = StreamOf(items)
    /\ tls = TlsSession_new
    /\ last = NoOp
    /\ InitNode

\* One non-empty chunk of the stream is handed to incoming_plaintext.
FeedChunk ==
    /\ rest # <<>>
    /\ ~conn.panicked
    /\ \E k \in 1..Len(rest), est \in HandlerResults :
          /\ conn' = incoming_plaintext([conn EXCEPT !.ret = "Ok"], Take(rest, k), est)
          /\ rest' = Drop(rest, k)
    /\ UNCHANGED <<items, tls, last>>
    /\ UNCHANGED nodeVars
    /\ UNCHANGED bridgeVars
    /\ UNCHANGED mainVars
    /\ UNCHANGED hs
    /\ UNCHANGED peer_list
    /\ UNCHANGED dispatch
    /\ UNCHANGED outbound
    /\ UNCHANGED cliVars
    /\ UNCHANGED codec

Next == FeedChunk

Spec == Init /\ [][Next]_vars

(***************************************************************************)
(* SpecReady: the connection driven by readiness events.                   *)
(***************************************************************************)
ReadyItemSeqs == { <<[type |-> "frame", bytes |-> Body("Handshake", <<>>)]>> }

\* The plaintext arrives in the records the sender's serialize_bytes wrote:
\* the length prefix and the body of each frame.
RECURSIVE RecordEnds(_, _)
RecordEnds(its, off) ==
    IF its = <<>> THEN {}
    ELSE {off + 4, off + Len(ItemBytes(Head(its)))}
         \cup RecordEnds(Tail(its), off + Len(ItemBytes(Head(its))))

InitReady ==
    /\ \E pt \in PeerTypes : conn = Connection_new(pt)
    /\ items \in ReadyItemSeqs
    /\ rest = StreamOf(items)
    /\ tls = TlsSession_new
    /\ last = NoOp
    /\ InitNode

\* Only the last iteration of a loop can leave the session not wanting to
\* read: do_tls_read reads nothing after that.
ReadOuts ==
    { outs \in UNION { [1..m -> [e : {0} \cup RecordEnds(items, 0), wr : BOOLEAN]] :
                           m \in 0..MaxReads } :
        \A i \in 1..(Len(outs) - 1) : outs[i].wr }

\* Connection::ready
Ready ==
    /\ ~conn.closed
    /\ ~conn.panicked
    /\ \E readable, writable \in BOOLEAN :
       \E outs \in (IF readable THEN ReadOuts ELSE {<<>>}),
          term \in (IF readable THEN ReadTerminals ELSE {"Eof"}),
          est \in (IF readable /\ rest # <<>> /\ (conn.handlers = "full" \/ Len(items) > 1)
                   THEN HandlerResults ELSE {"Ok"}),
          wout \in (IF writable THEN WriteOutcomes ELSE {"Ok"}),
          n \in (IF writable THEN 1..MaxPending ELSE {1}) :
         \E r \in { IF readable
                     THEN read_loop(conn, tls, rest, Len(StreamOf(items)), outs, term, est)
                     ELSE [c |-> conn, t |-> tls, data |-> rest, early |-> FALSE,
                           rres |-> "None", rbefore |-> conn.closing,
                           rafter |-> conn.closing, rsize |-> "None"] } :
         \E w \in { IF writable /\ ~r.early
                     THEN flush_tls(r.c, r.t, wout, n)
                     ELSE [c |-> r.c, t |-> r.t, ret |-> "Ok", wres |-> "None"] } :
         LET reached_end == ~r.early /\ w.ret = "Ok"
         IN  /\ conn' = IF reached_end THEN ready_finish(w.c, w.t) ELSE w.c
             /\ tls' = w.t
             /\ rest' = r.data
             /\ last' = [ op |-> "ready", seq |-> 1 - last.seq,
                          ret |-> IF reached_end THEN "Ok" ELSE "Err",
                          rres |-> r.rres, rbefore |-> r.rbefore,
                          rafter |-> r.rafter, rsize |-> r.rsize,
                          wres |-> w.wres, wpending |-> r.t.pending ]
    /\ UNCHANGED items
    /\ UNCHANGED nodeVars
    /\ UNCHANGED bridgeVars
    /\ UNCHANGED mainVars
    /\ UNCHANGED hs
    /\ UNCHANGED peer_list
    /\ UNCHANGED dispatch
    /\ UNCHANGED outbound
    /\ UNCHANGED cliVars
    /\ UNCHANGED codec

\* Connection::close
Close ==
    /\ ~conn.closed
    /\ ~conn.closing
    /\ conn' = close(conn)
    /\ last' = [NoOp EXCEPT !.op = "close", !.seq = last.seq]
    /\ UNCHANGED <<items, rest, tls>>
    /\ UNCHANGED nodeVars
    /\ UNCHANGED bridgeVars
    /\ UNCHANGED mainVars
    /\ UNCHANGED hs
    /\ UNCHANGED peer_list
    /\ UNCHANGED dispatch
    /\ UNCHANGED outbound
    /\ UNCHANGED cliVars
    /\ UNCHANGED codec

\* Connection::serialize_bytes: the frame is written into the session and
\* flush_tls is tried at once.
SerializeBytes ==
    /\ ~conn.closed
    /\ tls.pending < MaxPending
    /\ \E wout \in WriteOutcomes, n \in 1..MaxPending :
         LET t1 == [tls EXCEPT !.pending = @ + 1]
             w == flush_tls(conn, t1, wout, n)
         IN  /\ conn' = w.c
             /\ tls' = w.t
             /\ last' = [NoOp EXCEPT !.op = "serialize_bytes", !.seq = last.seq,
                                     !.ret = w.ret, !.wres = w.wres,
                                     !.wpending = t1.pending]
    /\ UNCHANGED <<items, rest>>
    /\ UNCHANGED nodeVars
    /\ UNCHANGED bridgeVars
    /\ UNCHANGED mainVars
    /\ UNCHANGED hs
    /\ UNCHANGED peer_list
    /\ UNCHANGED dispatch
    /\ UNCHANGED outbound
    /\ UNCHANGED cliVars
    /\ UNCHANGED codec

NextReady == Ready \/ Close \/ SerializeBytes

SpecReady == InitReady /\ [][NextReady]_vars


(***************************************************************************)
(* SpecNode: the node routes payloads among its peers.                     *)
(***************************************************************************)
InitNodeSpec ==
    /\ conn = Connection_new("Node")
    /\ items = <<>>
    /\ rest = <<>>
    /\ tls = TlsSession_new
    /\ last = NoOp
    /\ InitNode

\* A connection completes its handshake.
PeerEstablished ==
    /\ \E p \in Peers \ established : established' = established \cup {p}
    /\ UNCHANGED <<queue, since, lastSend>>
    /\ UNCHANGED connVars
    /\ UNCHANGED bridgeVars
    /\ UNCHANGED mainVars
    /\ UNCHANGED hs
    /\ UNCHANGED peer_list
    /\ UNCHANGED dispatch
    /\ UNCHANGED outbound
    /\ UNCHANGED cliVars
    /\ UNCHANGED codec

\* A payload is broadcast on a network: by a consensus output worker
\* (origin "self", send_message(None, net, None, bytes, true)) or as the
\* forwarding of a broadcast received from a peer.
SendBroadcast ==
    /\ \E origin \in {"self"} \cup established, net \in NetworkIds, bytes \in Payloads :
         LET r == send_message(queue, established, "None", origin, net, bytes, TRUE)
             h == XxHash64(bytes)
         IN  /\ queue' = r.queue
             /\ since' = IF r.seen THEN since ELSE Inserted(since, h)
             /\ lastSend' = [seq |-> 1 - lastSend.seq, broadcast |-> TRUE, fp |-> h,
                             net |-> net, origin |-> origin, seen |-> r.seen,
                             age |-> Age(since, h), copies |-> r.copies]
    /\ UNCHANGED established
    /\ UNCHANGED connVars
    /\ UNCHANGED bridgeVars
    /\ UNCHANGED mainVars
    /\ UNCHANGED hs
    /\ UNCHANGED peer_list
    /\ UNCHANGED dispatch
    /\ UNCHANGED outbound
    /\ UNCHANGED cliVars
    /\ UNCHANGED codec

\* A payload is sent to one peer: send_message(Some(id), net, None, bytes, false).
SendDirect ==
    /\ \E target \in Peers, net \in NetworkIds, bytes \in Payloads :
         LET r == send_message(queue, established, target, "self", net, bytes, FALSE)
             h == XxHash64(bytes)
         IN  /\ queue' = r.queue
             /\ lastSend' = [seq |-> 1 - lastSend.seq, broadcast |-> FALSE, fp |-> h,
                             net |-> net, origin |-> "self", seen |-> r.seen,
                             age |-> Age(since, h), copies |-> r.copies]
    /\ UNCHANGED <<established, since>>
    /\ UNCHANGED connVars
    /\ UNCHANGED bridgeVars
    /\ UNCHANGED mainVars
    /\ UNCHANGED hs
    /\ UNCHANGED peer_list
    /\ UNCHANGED dispatch
    /\ UNCHANGED outbound
    /\ UNCHANGED cliVars
    /\ UNCHANGED codec

NextNode == PeerEstablished \/ SendBroadcast \/ SendDirect

SpecNode == InitNodeSpec /\ [][NextNode]_vars

(***************************************************************************)
(* SpecBridge: peers' frames are dispatched into the packet queue and the  *)
(* bridge thread hands them to the baker.                                  *)
(***************************************************************************)
MaxArrivals == 2

BridgePeers == {"p1", "p2"}

\* The consensus payloads peers send.
BridgePayloads ==
    { <<0>>,
      WriteU16(8) \o <<1>>,
      WriteU16(PACKET_TYPE.CONSENSUS_BLOCK) \o WriteU64(0) \o <<1>>,
      WriteU16(PACKET_TYPE.CONSENSUS_BLOCK) \o WriteU64(1) \o <<1>>,
      WriteU16(PACKET_TYPE.CONSENSUS_TRANSACTION) \o <<5>>,
      WriteU16(PACKET_TYPE.CONSENSUS_FINALIZATION) \o <<5>>,
      WriteU16(PACKET_TYPE.CONSENSUS_FINALIZATION_RECORD) \o <<5>>,
      WriteU16(PACKET_TYPE.CONSENSUS_CATCHUP_REQUEST_BLOCK_BY_HASH) \o <<9>>,
      WriteU16(PACKET_TYPE.CONSENSUS_CATCHUP_REQUEST_FINALIZATION_RECORD_BY_HASH) \o <<9>>,
      WriteU16(PACKET_TYPE.CONSENSUS_CATCHUP_REQUEST_FINALIZATION_RECORD_BY_INDEX) \o <<0, 0, 1>>,
      WriteU16(PACKET_TYPE.CONSENSUS_CATCHUP_REQUEST_FINALIZATION_RECORD_BY_INDEX) \o WriteU64(1),
      WriteU16(PACKET_TYPE.CONSENSUS_CATCHUP_REQUEST_FINALIZATION_BY_POINT) \o <<1>> }

BridgeWire ==
    [t : {"DirectMessage"}, payload : BridgePayloads]
    \cup [t : {"BroadcastedMessage"},
          payload : { WriteU16(8) \o <<1>>, WriteU16(PACKET_TYPE.CONSENSUS_TRANSACTION) \o <<5>> }]
    \cup [t : {"Retransmit", "Ping", "BanNode"}, payload : {<<>>}]

\* Two frames that arrive in one chunk.
BridgePairWire ==
    [t : {"DirectMessage"},
     payload : { WriteU16(PACKET_TYPE.CONSENSUS_TRANSACTION) \o <<5>>,
                 WriteU16(PACKET_TYPE.CONSENSUS_FINALIZATION) \o <<5>> }]

BridgeChunks ==
    { <<m>> : m \in BridgeWire } \cup { <<m1, m2>> : m1 \in BridgePairWire, m2 \in BridgePairWire }

RECURSIVE WireStream(_)
WireStream(ms) ==
    IF ms = <<>> THEN <<>>
    ELSE Frame(Body(Head(ms).t, Head(ms).payload)) \o WireStream(Tail(ms))

\* A connection after its handshake.
EstablishedConn ==
    [setup_message_handler(Connection_new("Node")) EXCEPT !.status = "Established"]

InitBridge ==
    /\ conn = EstablishedConn
    /\ items = <<>>
    /\ rest = <<>>
    /\ tls = TlsSession_new
    /\ last = NoOp
    /\ queue = CircularQueue_with_capacity
    /\ established = Peers
    /\ since = NeverInserted
    /\ lastSend = NoSend
    /\ InitBridgeIdle
    /\ InitMainIdle
    /\ InitHandshakeIdle
    /\ InitPeerListIdle
    /\ InitDispatchIdle
    /\ InitOutboundIdle
    /\ InitCliIdle
    /\ InitCodecIdle

\* A chunk of whole frames of one peer is read: the framer dispatches its
\* messages, which the handlers forward to the packet queue.
Arrive ==
    /\ \E p \in BridgePeers, ms \in BridgeChunks :
         /\ arrivals + Len(ms) <= MaxArrivals
         /\ LET c == incoming_plaintext(conn, WireStream(ms), "Ok")
                d == c.delivered
            IN  /\ pkt_queue' = pkt_queue \o
                      [i \in 1..Len(d) |->
                          [n |-> arrivals + i, peer |-> p,
                           cat |-> d[i].msg.cat, kind |-> d[i].msg.kind,
                           message |-> Drop(d[i].body, PROTOCOL_MESSAGE_LENGTH),
                           wire |-> IF i <= Len(ms) THEN ms[i].payload ELSE <<>>]]
                /\ arrivals' = arrivals + Len(ms)
    /\ UNCHANGED <<bridge_alive, baker_calls, bridge_last>>
    /\ UNCHANGED connVars
    /\ UNCHANGED nodeVars
    /\ UNCHANGED mainVars
    /\ UNCHANGED hs
    /\ UNCHANGED peer_list
    /\ UNCHANGED dispatch
    /\ UNCHANGED outbound
    /\ UNCHANGED cliVars
    /\ UNCHANGED codec

\* pkt_out.recv() that takes the newest message of the channel.
pkt_out_recv_newest(q) == [msg |-> q[Len(q)], rest |-> SubSeq(q, 1, Len(q) - 1)]

\* pkt_out.recv(): the oldest message of the channel
pkt_out_recv(q) == [msg |-> Head(q), rest |-> Tail(q)]

\* The lookups of the baker whose answer decides on a reply.
BakerLookups == {"get_block", "get_block_finalization", "get_indexed_finalization"}

RECURSIVE SumBytes(_)
\* The payload of send_message as the number XxHash64 is applied to.
SumBytes(b) == IF b = <<>> THEN 0 ELSE Head(b) + SumBytes(Tail(b))

RECURSIVE ApplySends(_, _, _)
\* The calls of send_message of one handler, in order: the dedup queue
\* afterwards and the copies each call hands to the peers.
ApplySends(q, sends, copies) ==
    IF sends = <<>> THEN [queue |-> q, copies |-> copies]
    ELSE LET a == Head(sends)
             r == send_message(q, established, a.target, "self", a.net, SumBytes(a.bytes), a.broadcast)
         IN  ApplySends(r.queue, Tail(sends), Append(copies, r.copies))

\* One turn of the loop: pkt_out.recv() and the match on the message.
BridgeStep ==
    /\ bridge_alive
    /\ pkt_queue # <<>>
    /\ \E ans \in BakerAnswers, des \in {"Ok", "Err"} :
         LET full_msg == pkt_out_recv(pkt_queue).msg
             net == 100
             b == IF full_msg.cat = "Packet"
                  THEN send_msg_to_baker(TRUE, full_msg.peer, net, full_msg.message, ans, des).ret
                  ELSE "None"
             r == bridge_process(full_msg, net, ans, des)
             a == ApplySends(queue, r.sends, <<>>)
         IN  /\ bridge_alive' = (r.ret # "Panic")
             /\ baker_calls' = baker_calls \o
                    [i \in 1..Len(r.calls) |->
                        [n |-> full_msg.n, peer |-> full_msg.peer, call |-> r.calls[i]]]
             /\ queue' = a.queue
             /\ bridge_last' = [seq |-> 1 - bridge_last.seq, msg |-> full_msg,
                                baker_ret |-> b, calls |-> r.calls, sends |-> r.sends,
                                copies |-> a.copies,
                                answer |-> IF r.calls # <<>> /\ r.calls[1] \in BakerLookups
                                           THEN ans ELSE NoBridgeStep.answer,
                                queue_before |-> queue]
    /\ pkt_queue' = pkt_out_recv(pkt_queue).rest
    /\ UNCHANGED arrivals
    /\ UNCHANGED connVars
    /\ UNCHANGED <<established, since, lastSend>>
    /\ UNCHANGED mainVars
    /\ UNCHANGED hs
    /\ UNCHANGED peer_list
    /\ UNCHANGED dispatch
    /\ UNCHANGED outbound
    /\ UNCHANGED cliVars
    /\ UNCHANGED codec

NextBridge == Arrive \/ BridgeStep

SpecBridge == InitBridge /\ [][NextBridge]_vars

(***************************************************************************)
(* SpecMain: main() starts the event loop, waits for peers, starts the     *)
(* baker, registers the handshake-response callback and starts the         *)
(* workers of the queues of the baker, while the event loop processes the  *)
(* handshake responses of peers.                                           *)
(***************************************************************************)
MaxEmitted == 2

\* What the baker puts into its queues.
OutItems ==
    [ block |-> [bytes : {<<1>>, <<2>>}],
      finalization |-> [bytes : {<<1>>, <<2>>}],
      finalization_record |-> [bytes : {<<1>>, <<2>>}],
      catchup |-> [variant : {"BlockByHash", "FinalizationRecordByHash"},
                   receiver_id : {"p1", "p2"}, bytes : {<<9>>}, index : {0}]
                  \cup [variant : {"FinalizationRecordByIndex"},
                        receiver_id : {"p1", "p2"}, bytes : {<<>>}, index : {1}],
      finalization_catchup |-> [receiver_id : {"p1", "p2"}, bytes : {<<1>>}] ]

\* The worker of the catch-up requests broadcasting them.
worker_catchup_broadcast(item, network_id) ==
    SendArgs("None", network_id,
             WriteU16(PACKET_TYPE.CONSENSUS_CATCHUP_REQUEST_BLOCK_BY_HASH) \o item.bytes, TRUE)

\* "Process baker catch-up requests"
worker_catchup(item, network_id) ==
    LET serialized_bytes ==
          CASE item.variant = "BlockByHash" ->
                 WriteU16(PACKET_TYPE.CONSENSUS_CATCHUP_REQUEST_BLOCK_BY_HASH) \o item.bytes
            [] item.variant = "FinalizationRecordByHash" ->
                 WriteU16(PACKET_TYPE.CONSENSUS_CATCHUP_REQUEST_FINALIZATION_RECORD_BY_HASH)
                     \o item.bytes
            [] item.variant = "FinalizationRecordByIndex" ->
                 WriteU16(PACKET_TYPE.CONSENSUS_CATCHUP_REQUEST_FINALIZATION_RECORD_BY_INDEX)
                     \o WriteU64(item.index)
    IN  SendArgs(item.receiver_id, network_id, serialized_bytes, FALSE)

\* The call of send_message a worker makes for an item of its queue.
worker_send(q, item, network_id) ==
    CASE q = "block" ->
           SendArgs("None", network_id,
                    WriteU16(PACKET_TYPE.CONSENSUS_BLOCK) \o item.bytes, TRUE)
      [] q = "finalization" ->
           SendArgs("None", network_id,
                    WriteU16(PACKET_TYPE.CONSENSUS_FINALIZATION) \o item.bytes, TRUE)
      [] q = "finalization_record" ->
           SendArgs("None", network_id,
                    WriteU16(PACKET_TYPE.CONSENSUS_FINALIZATION_RECORD) \o item.bytes, TRUE)
      [] q = "catchup" -> worker_catchup(item, network_id)
      [] q = "finalization_catchup" ->
           SendArgs(item.receiver_id, network_id,
                    WriteU16(PACKET_TYPE.CONSENSUS_FINALIZATION) \o item.bytes, FALSE)

InitMain ==
    /\ conn = EstablishedConn
    /\ items = <<>>
    /\ rest = <<>>
    /\ tls = TlsSession_new
    /\ last = NoOp
    /\ queue = CircularQueue_with_capacity
    /\ established = {}
    /\ since = NeverInserted
    /\ lastSend = NoSend
    /\ InitBridgeIdle
    /\ main_pc = "wait"
    /\ needed_peers \in 0..1
    /\ handshaken = {}
    /\ by_point = [p \in Peers |-> 0]
    /\ out_queue = [q \in OutQueues |-> <<>>]
    /\ worker_sent = [q \in OutQueues |-> <<>>]
    /\ emitted = 0
    /\ InitHandshakeIdle
    /\ InitPeerListIdle
    /\ InitDispatchIdle
    /\ InitOutboundIdle
    /\ InitCliIdle
    /\ InitCodecIdle

\* The event loop processes the Handshake response of a peer: the callback
\* that asks the peer for finalization messages runs if main has
\* registered it; fp is the result of get_finalization_point.
HandshakeResponse ==
    /\ \E p \in Peers \ handshaken, fp \in {"Ok", "Err"} :
         /\ handshaken' = handshaken \cup {p}
         /\ by_point' = IF main_pc \in {"guards", "run"} /\ fp = "Ok"
                         THEN [by_point EXCEPT ![p] = @ + 1]
                         ELSE by_point
    /\ UNCHANGED <<main_pc, needed_peers, out_queue, worker_sent, emitted>>
    /\ UNCHANGED connVars
    /\ UNCHANGED nodeVars
    /\ UNCHANGED bridgeVars
    /\ UNCHANGED hs
    /\ UNCHANGED peer_list
    /\ UNCHANGED dispatch
    /\ UNCHANGED outbound
    /\ UNCHANGED cliVars
    /\ UNCHANGED codec

\* main: the loop that waits for enough Node peers, then start_baker
MainStartBaker ==
    /\ main_pc = "wait"
    /\ Cardinality({ p \in handshaken : PeerTypeOf[p] = "Node" }) >= needed_peers
    /\ main_pc' = "register"
    /\ UNCHANGED <<needed_peers, handshaken, by_point, out_queue, worker_sent, emitted>>
    /\ UNCHANGED connVars
    /\ UNCHANGED nodeVars
    /\ UNCHANGED bridgeVars
    /\ UNCHANGED hs
    /\ UNCHANGED peer_list
    /\ UNCHANGED dispatch
    /\ UNCHANGED outbound
    /\ UNCHANGED cliVars
    /\ UNCHANGED codec

\* main: add_response_callback of the catch-up request after handshake
MainRegister ==
    /\ main_pc = "register"
    /\ main_pc' = "guards"
    /\ UNCHANGED <<needed_peers, handshaken, by_point, out_queue, worker_sent, emitted>>
    /\ UNCHANGED connVars
    /\ UNCHANGED nodeVars
    /\ UNCHANGED bridgeVars
    /\ UNCHANGED hs
    /\ UNCHANGED peer_list
    /\ UNCHANGED dispatch
    /\ UNCHANGED outbound
    /\ UNCHANGED cliVars
    /\ UNCHANGED codec

\* main: setup_process_output and setup_baker_guards spawn the workers
MainSetupGuards ==
    /\ main_pc = "guards"
    /\ main_pc' = "run"
    /\ UNCHANGED <<needed_peers, handshaken, by_point, out_queue, worker_sent, emitted>>
    /\ UNCHANGED connVars
    /\ UNCHANGED nodeVars
    /\ UNCHANGED bridgeVars
    /\ UNCHANGED hs
    /\ UNCHANGED peer_list
    /\ UNCHANGED dispatch
    /\ UNCHANGED outbound
    /\ UNCHANGED cliVars
    /\ UNCHANGED codec

\* The baker puts an item into one of its queues.
BakerEmit ==
    /\ main_pc \in {"guards", "run"}
    /\ emitted < MaxEmitted
    /\ \E q \in OutQueues : \E item \in OutItems[q] :
         out_queue' = [out_queue EXCEPT ![q] = Append(@, [n |-> emitted + 1, item |-> item])]
    /\ emitted' = emitted + 1
    /\ UNCHANGED <<main_pc, needed_peers, handshaken, by_point, worker_sent>>
    /\ UNCHANGED connVars
    /\ UNCHANGED nodeVars
    /\ UNCHANGED bridgeVars
    /\ UNCHANGED hs
    /\ UNCHANGED peer_list
    /\ UNCHANGED dispatch
    /\ UNCHANGED outbound
    /\ UNCHANGED cliVars
    /\ UNCHANGED codec

\* One turn of the loop of a worker: recv from its queue and send_message.
Worker ==
    /\ main_pc = "run"
    /\ \E q \in OutQueues :
         /\ out_queue[q] # <<>>
         /\ LET e == Head(out_queue[q]) IN
            worker_sent' = [worker_sent EXCEPT ![q] =
                               Append(@, [n |-> e.n, item |-> e.item,
                                          args |-> worker_send(q, e.item, 100)])]
         /\ out_queue' = [out_queue EXCEPT ![q] = Tail(@)]
    /\ UNCHANGED <<main_pc, needed_peers, handshaken, by_point, emitted>>
    /\ UNCHANGED connVars
    /\ UNCHANGED nodeVars
    /\ UNCHANGED bridgeVars
    /\ UNCHANGED hs
    /\ UNCHANGED peer_list
    /\ UNCHANGED dispatch
    /\ UNCHANGED outbound
    /\ UNCHANGED cliVars
    /\ UNCHANGED codec

NextMain ==
    \/ HandshakeResponse \/ MainStartBaker \/ MainRegister \/ MainSetupGuards
    \/ BakerEmit \/ Worker

SpecMain == InitMain /\ [][NextMain]_vars

(***************************************************************************)
(* SpecHandshake: the responder accepts a handshake and calls              *)
(* send_handshake_and_ping; the peer reads what arrives.  Every write_all  *)
(* on the TLS session makes one TLS record, and the peer's                 *)
(* try_plain_read hands to incoming_plaintext the plaintext of the whole   *)
(* records that have arrived since its last read (read_to_end).            *)
(***************************************************************************)
MaxSentBefore == 1

\* The payloads of the Handshake response: the serialization of self_peer,
\* the own networks and the empty trailer.
HandshakePayloads == { <<>>, <<100>>, <<100, 200>> }

\* serialize_bytes: the two write_all calls, the size in 4 bytes and pkt
serialize_bytes(pkt) == << WriteU32(Len(pkt)), pkt >>

\* A responder that writes the Ping before the Handshake response.
send_handshake_and_ping_ping_first(payload) ==
    serialize_bytes(Body("Ping", <<>>))
        \o serialize_bytes(Body("HandshakeResponse", payload))

\* send_handshake_and_ping: the writes it makes on the session, in order
send_handshake_and_ping(payload) ==
    serialize_bytes(Body("HandshakeResponse", payload))
        \o serialize_bytes(Body("Ping", <<>>))

InitHandshake ==
    /\ \E pt \in PeerTypes : conn = Connection_new(pt)
    /\ items = <<>>
    /\ rest = <<>>
    /\ tls = TlsSession_new
    /\ last = NoOp
    /\ queue = CircularQueue_with_capacity
    /\ established = {}
    /\ since = NeverInserted
    /\ lastSend = NoSend
    /\ InitBridgeIdle
    /\ InitMainIdle
    /\ InitCodecIdle
    /\ InitPeerListIdle
    /\ InitDispatchIdle
    /\ InitOutboundIdle
    /\ InitCliIdle
    /\ \E payload \in HandshakePayloads, c \in 0..MaxSentBefore :
         hs = [pc |-> "write", payload |-> payload, written |-> <<>>, read |-> 0,
               counter |-> c, before |-> c]

\* One write_all of send_handshake_and_ping; an error returns through `?`.
HsWriteAll ==
    /\ hs.pc = "write"
    /\ \E ok \in BOOLEAN :
         hs' = IF ok
               THEN LET writes == send_handshake_and_ping(hs.payload)
                        n == Len(hs.written) + 1
                    IN  [hs EXCEPT !.pc = IF n = Len(writes) THEN "count" ELSE "write",
                                   !.written = Append(@, writes[n])]
               ELSE [hs EXCEPT !.pc = "failed"]
    /\ UNCHANGED connVars
    /\ UNCHANGED nodeVars
    /\ UNCHANGED bridgeVars
    /\ UNCHANGED mainVars
    /\ UNCHANGED codec
    /\ UNCHANGED peer_list
    /\ UNCHANGED dispatch
    /\ UNCHANGED outbound
    /\ UNCHANGED cliVars

\* TOTAL_MESSAGES_SENT_COUNTER.fetch_add(2, ..); Ok(())
HsCount ==
    /\ hs.pc = "count"
    /\ hs' = [hs EXCEPT !.pc = "done", !.counter = @ + 2]
    /\ UNCHANGED connVars
    /\ UNCHANGED nodeVars
    /\ UNCHANGED bridgeVars
    /\ UNCHANGED mainVars
    /\ UNCHANGED codec
    /\ UNCHANGED peer_list
    /\ UNCHANGED dispatch
    /\ UNCHANGED outbound
    /\ UNCHANGED cliVars

\* The peer reads the plaintext of the records that have arrived.
HsPeerRead ==
    /\ \E k \in 1..(Len(hs.written) - hs.read), est \in {"Ok", "Err"} :
         /\ conn' = incoming_plaintext(
                        conn, FlattenWrites(SubSeq(hs.written, hs.read + 1, hs.read + k)), est)
         /\ hs' = [hs EXCEPT !.read = @ + k]
    /\ UNCHANGED <<items, rest, tls, last>>
    /\ UNCHANGED nodeVars
    /\ UNCHANGED bridgeVars
    /\ UNCHANGED mainVars
    /\ UNCHANGED codec
    /\ UNCHANGED peer_list
    /\ UNCHANGED dispatch
    /\ UNCHANGED outbound
    /\ UNCHANGED cliVars

NextHandshake == HsWriteAll \/ HsCount \/ HsPeerRead

SpecHandshake == InitHandshake /\ [][NextHandshake]_vars

(***************************************************************************)
(* SpecCodec: a block value is serialized and read back, or a byte string  *)
(* is read and written back.                                               *)
(***************************************************************************)
MaxTxs == 2

Fill(n, x) == [i \in 1..n |-> x]

\* The transactions of the blocks.
CodecTransactions ==
    { [signature |-> <<>>, arrival |-> 0], [signature |-> <<4, 5>>, arrival |-> 259] }

CodecTransactionLists == UNION { [1..n -> CodecTransactions] : n \in 0..MaxTxs }

CodecSignatures == { <<>>, <<5>>, Fill(SHORT_LENGTH_LIMIT, 9) }

\* The regular blocks: slot # 0, a signature of at most 1 KiB, the
\* transactions as the serialization of a list.
RegularBlocks ==
    { [slot |-> slot,
       data |-> [variant |-> "Regular", pointer |-> pointer, baker_id |-> baker_id,
                 proof |-> Fill(PROOF_LENGTH, 1), nonce |-> Fill(NONCE, 2),
                 last_finalized |-> Fill(BLOCK_HASH_LENGTH, 3),
                 transactions |-> write_multiple(serialize_list(txs)),
                 signature |-> signature]] :
      slot \in {1, 258}, pointer \in {Fill(BLOCK_HASH_LENGTH, 0), Fill(BLOCK_HASH_LENGTH, 7)},
      baker_id \in {0, 513}, txs \in CodecTransactionLists, signature \in CodecSignatures }

\* The bytes of a regular block up to the signature, with one transaction.
CodecRegularHead ==
    WriteU64(1) \o Fill(BLOCK_HASH_LENGTH, 0) \o WriteU64(513) \o Fill(PROOF_LENGTH, 1)
        \o Fill(NONCE, 2) \o Fill(BLOCK_HASH_LENGTH, 3)
        \o WriteU64(1) \o WriteU64(2) \o <<4, 5>> \o WriteU64(259)

\* Byte strings: well-formed regular and genesis blocks, and byte strings
\* that are not a block: a trailing byte, a truncation, a signature length
\* above the limit, a count of transactions above the cap or above the
\* transactions that follow.
CodecByteStrings ==
    { CodecRegularHead \o WriteU16(0),
      CodecRegularHead \o WriteU16(2) \o <<8, 9>>,
      CodecRegularHead \o WriteU16(SHORT_LENGTH_LIMIT) \o Fill(SHORT_LENGTH_LIMIT, 9),
      WriteU64(0),
      WriteU64(0) \o <<1, 2, 3>>,
      CodecRegularHead \o WriteU16(0) \o <<0>>,
      CodecRegularHead \o WriteU16(2) \o <<8>>,
      CodecRegularHead \o WriteU16(SHORT_LENGTH_LIMIT + 1) \o Fill(SHORT_LENGTH_LIMIT + 1, 9),
      CodecRegularHead,
      <<0, 0, 0>>,
      WriteU64(1) \o Fill(BLOCK_HASH_LENGTH, 0) \o WriteU64(513) \o Fill(PROOF_LENGTH, 1)
          \o Fill(NONCE, 2) \o Fill(BLOCK_HASH_LENGTH, 3)
          \o WriteU64(TX_ALLOC_LIMIT + 1) \o WriteU16(0),
      WriteU64(1) \o Fill(BLOCK_HASH_LENGTH, 0) \o WriteU64(513) \o Fill(PROOF_LENGTH, 1)
          \o Fill(NONCE, 2) \o Fill(BLOCK_HASH_LENGTH, 3)
          \o WriteU64(2) \o WriteU64(2) \o <<4, 5>> \o WriteU64(259) \o WriteU16(0) }

InitCodec ==
    /\ conn = EstablishedConn
    /\ items = <<>>
    /\ rest = <<>>
    /\ tls = TlsSession_new
    /\ last = NoOp
    /\ queue = CircularQueue_with_capacity
    /\ established = {}
    /\ since = NeverInserted
    /\ lastSend = NoSend
    /\ InitBridgeIdle
    /\ InitMainIdle
    /\ InitHandshakeIdle
    /\ InitPeerListIdle
    /\ InitDispatchIdle
    /\ InitOutboundIdle
    /\ InitCliIdle
    /\ \/ \E v \in RegularBlocks : codec = [NoCodec EXCEPT !.phase = "value", !.v = v]
       \/ \E b \in CodecByteStrings : codec = [NoCodec EXCEPT !.phase = "bytes", !.b = b]

\* Block::deserialize(serialize(v))
SerializeDeserialize ==
    /\ codec.phase = "value"
    /\ LET bytes == GlobalState_Block_serial(codec.v)
       IN  codec' = [codec EXCEPT !.phase = "read_back", !.b = bytes,
                                  !.read = GlobalState_Block_deserialize(bytes)]
    /\ UNCHANGED connVars
    /\ UNCHANGED nodeVars
    /\ UNCHANGED bridgeVars
    /\ UNCHANGED mainVars
    /\ UNCHANGED hs
    /\ UNCHANGED peer_list
    /\ UNCHANGED dispatch
    /\ UNCHANGED outbound
    /\ UNCHANGED cliVars

\* serialize(Block::deserialize(b))
DeserializeSerialize ==
    /\ codec.phase = "bytes"
    /\ LET d == GlobalState_Block_deserialize(codec.b)
       IN  codec' = [codec EXCEPT !.phase = "written_back", !.read = d,
                                  !.out = IF d.ok THEN GlobalState_Block_serial(d.val)
                                          ELSE <<>>]
    /\ UNCHANGED connVars
    /\ UNCHANGED nodeVars
    /\ UNCHANGED bridgeVars
    /\ UNCHANGED mainVars
    /\ UNCHANGED hs
    /\ UNCHANGED peer_list
    /\ UNCHANGED dispatch
    /\ UNCHANGED outbound
    /\ UNCHANGED cliVars

NextCodec == SerializeDeserialize \/ DeserializeSerialize

SpecCodec == InitCodec /\ [][NextCodec]_vars

(***************************************************************************)
(* SpecWire: what one Block codec writes is read by the other one, and a   *)
(* serialized value is cut short before it is read.                        *)
(***************************************************************************)
\* Regular blocks as the consensus crate holds them.
ConsensusRegularBlocks ==
    { [slot |-> slot,
       data |-> [variant |-> "Regular", pointer |-> pointer, baker_id |-> baker_id,
                 proof |-> Fill(PROOF_LENGTH, 1), nonce |-> Fill(Consensus_NONCE, 2),
                 last_finalized |-> Fill(LAST_FINALIZED, 0),
                 transactions |-> write_multiple(serialize_list(txs)),
                 signature |-> Fill(SIGNATURE, sig)]] :
      slot \in {1, 258}, pointer \in {Fill(POINTER, 0), Fill(POINTER, 7)},
      baker_id \in {0, 513}, txs \in CodecTransactionLists, sig \in {0, 9} }

\* Regular blocks as the global state holds them.
WireRegularBlocks ==
    { v \in RegularBlocks : v.data.pointer = Fill(BLOCK_HASH_LENGTH, 7) }

\* The proper prefixes of a byte string.
ProperPrefixes(bytes) == { Take(bytes, n) : n \in 0..(Len(bytes) - 1) }

\* Serialized blocks that are cut short: one of each codec.
ConsensusPrefixBlocks ==
    { v \in ConsensusRegularBlocks :
        /\ v.slot = 1 /\ v.data.baker_id = 513 /\ v.data.pointer = Fill(POINTER, 7)
        /\ v.data.signature = Fill(SIGNATURE, 9)
        /\ v.data.transactions = write_multiple(serialize_list(
                                     << [signature |-> <<4, 5>>, arrival |-> 259] >>)) }

GlobalStatePrefixBlocks ==
    { v \in RegularBlocks :
        /\ v.slot = 1 /\ v.data.baker_id = 513 /\ v.data.pointer = Fill(POINTER, 7)
        /\ v.data.signature = <<5>>
        /\ v.data.transactions = write_multiple(serialize_list(
                                     << [signature |-> <<4, 5>>, arrival |-> 259] >>)) }

InitWire ==
    /\ conn = EstablishedConn
    /\ items = <<>>
    /\ rest = <<>>
    /\ tls = TlsSession_new
    /\ last = NoOp
    /\ queue = CircularQueue_with_capacity
    /\ established = {}
    /\ since = NeverInserted
    /\ lastSend = NoSend
    /\ InitBridgeIdle
    /\ InitMainIdle
    /\ InitHandshakeIdle
    /\ InitPeerListIdle
    /\ InitDispatchIdle
    /\ InitOutboundIdle
    /\ InitCliIdle
    /\ \/ \E v \in ConsensusRegularBlocks :
            codec = [NoCodec EXCEPT !.phase = "consensus_value", !.v = v]
       \/ \E v \in WireRegularBlocks :
            codec = [NoCodec EXCEPT !.phase = "globalstate_value", !.v = v]
       \/ \E v \in ConsensusPrefixBlocks : \E b \in ProperPrefixes(Consensus_Block_serialize(v)) :
            codec = [NoCodec EXCEPT !.phase = "consensus_prefix", !.v = v, !.b = b]
       \/ \E v \in GlobalStatePrefixBlocks : \E b \in ProperPrefixes(GlobalState_Block_serial(v)) :
            codec = [NoCodec EXCEPT !.phase = "globalstate_prefix", !.v = v, !.b = b]

\* The global state reads what the consensus crate has written.
ConsensusToGlobalState ==
    /\ codec.phase = "consensus_value"
    /\ LET bytes == Consensus_Block_serialize(codec.v)
       IN  codec' = [codec EXCEPT !.phase = "globalstate_read", !.b = bytes,
                                  !.read = GlobalState_Block_deserialize(bytes)]
    /\ UNCHANGED connVars
    /\ UNCHANGED nodeVars
    /\ UNCHANGED bridgeVars
    /\ UNCHANGED mainVars
    /\ UNCHANGED hs
    /\ UNCHANGED peer_list
    /\ UNCHANGED dispatch
    /\ UNCHANGED outbound
    /\ UNCHANGED cliVars

\* The consensus crate reads what the global state has written.
GlobalStateToConsensus ==
    /\ codec.phase = "globalstate_value"
    /\ \E build \in Builds :
         LET bytes == GlobalState_Block_serial(codec.v)
         IN  codec' = [codec EXCEPT !.phase = "consensus_read", !.b = bytes,
                                    !.read = Consensus_Block_deserialize(bytes, build)]
    /\ UNCHANGED connVars
    /\ UNCHANGED nodeVars
    /\ UNCHANGED bridgeVars
    /\ UNCHANGED mainVars
    /\ UNCHANGED hs
    /\ UNCHANGED peer_list
    /\ UNCHANGED dispatch
    /\ UNCHANGED outbound
    /\ UNCHANGED cliVars

\* Block::deserialize (concordium-consensus) of a serialized block cut short
ConsensusReadPrefix ==
    /\ codec.phase = "consensus_prefix"
    /\ \E build \in Builds :
         codec' = [codec EXCEPT !.phase = "prefix_read",
                                !.read = Consensus_Block_deserialize(codec.b, build)]
    /\ UNCHANGED connVars
    /\ UNCHANGED nodeVars
    /\ UNCHANGED bridgeVars
    /\ UNCHANGED mainVars
    /\ UNCHANGED hs
    /\ UNCHANGED peer_list
    /\ UNCHANGED dispatch
    /\ UNCHANGED outbound
    /\ UNCHANGED cliVars

\* Block::deserialize (concordium-global-state) of a serialized block cut short
GlobalStateReadPrefix ==
    /\ codec.phase = "globalstate_prefix"
    /\ codec' = [codec EXCEPT !.phase = "prefix_read",
                              !.read = Let(GlobalState_Block_deserialize(codec.b), LAMBDA d :
                                           ConsensusRead(IF d.ok THEN "Ok" ELSE "Err", d.val))]
    /\ UNCHANGED connVars
    /\ UNCHANGED nodeVars
    /\ UNCHANGED bridgeVars
    /\ UNCHANGED mainVars
    /\ UNCHANGED hs
    /\ UNCHANGED peer_list
    /\ UNCHANGED dispatch
    /\ UNCHANGED outbound
    /\ UNCHANGED cliVars

NextWire ==
    \/ ConsensusToGlobalState \/ GlobalStateToConsensus
    \/ ConsensusReadPrefix \/ GlobalStateReadPrefix

SpecWire == InitWire /\ [][NextWire]_vars

(***************************************************************************)
(* The deserialization of transactions and of account records: a byte      *)
(* string put together from its fields is handed to Transaction::          *)
(* deserialize or to Account::deserialize.                                 *)
(***************************************************************************)
CodecOnlyInit ==
    /\ conn = EstablishedConn
    /\ items = <<>>
    /\ rest = <<>>
    /\ tls = TlsSession_new
    /\ last = NoOp
    /\ queue = CircularQueue_with_capacity
    /\ established = {}
    /\ since = NeverInserted
    /\ lastSend = NoSend
    /\ InitBridgeIdle
    /\ InitMainIdle
    /\ InitHandshakeIdle
    /\ InitPeerListIdle
    /\ InitDispatchIdle
    /\ InitOutboundIdle
    /\ InitCliIdle

\* Everything but the state of cli.rs is idle.
CliOnlyInit ==
    /\ conn = EstablishedConn
    /\ items = <<>>
    /\ rest = <<>>
    /\ tls = TlsSession_new
    /\ last = NoOp
    /\ queue = CircularQueue_with_capacity
    /\ established = {}
    /\ since = NeverInserted
    /\ lastSend = NoSend
    /\ InitBridgeIdle
    /\ InitMainIdle
    /\ InitHandshakeIdle
    /\ InitPeerListIdle
    /\ InitDispatchIdle
    /\ InitOutboundIdle
    /\ InitCodecIdle

TxNonces == {0, 1, 256, 16777216}
TxSchemes == {0, 1, 2}
TxSignatures == {<<>>, <<7, 7>>}
TxSenderKeys == {<<>>, <<1>>}
TxPayloads ==
    { <<>>,
      <<0, 8, 9>>,
      <<1>> \o WriteU64(1) \o Fill(BLOCK_HASH_LENGTH, 5) \o WriteU32(2) \o <<6>>,
      <<2>> \o WriteU64(1) \o Fill(CONTRACT_ADDRESS_LENGTH, 0) \o <<6, 6>>,
      <<3, 0>> \o Fill(ACCOUNT_ADDRESS_LENGTH, 4) \o WriteU64(5),
      <<4>>,
      <<200>> }
TxPayloadLens(payload) ==
    {Len(payload), 0, PAYLOAD_MAX_LEN - 1, PAYLOAD_MAX_LEN, PAYLOAD_MAX_LEN + 1}

TxFields ==
    { [signature |-> sg, scheme_id |-> sc, sender_key |-> k, nonce |-> n,
       payload_len |-> l, payload |-> p] :
        sg \in TxSignatures, sc \in TxSchemes, k \in TxSenderKeys, n \in TxNonces,
        l \in UNION { TxPayloadLens(q) : q \in TxPayloads }, p \in TxPayloads }

\* the bytes of a transaction with these fields
TxBytes(f) ==
    write_bytestring(f.signature) \o <<f.scheme_id>> \o write_bytestring(f.sender_key)
        \o WriteU64(f.nonce) \o WriteU64(3) \o Fill(BLOCK_HASH_LENGTH, 1)
        \o WriteU32(f.payload_len) \o f.payload

AccountFields == { [nonce |-> n, tail |-> t] : n \in TxNonces, t \in {<<>>, WriteU64(9)} }

\* the bytes of an account record with these fields
AccountBytes(f) == Fill(ACCOUNT_ADDRESS_LENGTH, 3) \o WriteU64(f.nonce) \o f.tail

InitTransaction ==
    /\ CodecOnlyInit
    /\ \/ \E f \in TxFields :
            /\ f.payload_len \in TxPayloadLens(f.payload)
            /\ codec = [NoCodec EXCEPT !.phase = "transaction_bytes", !.v = f, !.b = TxBytes(f)]
       \/ \E f \in AccountFields :
            codec = [NoCodec EXCEPT !.phase = "account_bytes", !.v = f, !.b = AccountBytes(f)]

\* Transaction::deserialize on the bytes
DeserializeTransaction ==
    /\ codec.phase = "transaction_bytes"
    /\ \E build \in Builds :
         codec' = [codec EXCEPT !.phase = "transaction_read",
                                !.read = Transaction_deserialize(codec.b, build)]
    /\ UNCHANGED connVars
    /\ UNCHANGED nodeVars
    /\ UNCHANGED bridgeVars
    /\ UNCHANGED mainVars
    /\ UNCHANGED hs
    /\ UNCHANGED peer_list
    /\ UNCHANGED dispatch
    /\ UNCHANGED outbound
    /\ UNCHANGED cliVars

\* Account::deserialize on the bytes
DeserializeAccount ==
    /\ codec.phase = "account_bytes"
    /\ codec' = [codec EXCEPT !.phase = "account_read", !.read = Account_deserialize(codec.b)]
    /\ UNCHANGED connVars
    /\ UNCHANGED nodeVars
    /\ UNCHANGED bridgeVars
    /\ UNCHANGED mainVars
    /\ UNCHANGED hs
    /\ UNCHANGED peer_list
    /\ UNCHANGED dispatch
    /\ UNCHANGED outbound
    /\ UNCHANGED cliVars

NextTransaction == DeserializeTransaction \/ DeserializeAccount

SpecTransaction == InitTransaction /\ [][NextTransaction]_vars

(***************************************************************************)
(* SpecPayload: TransactionPayload::deserialize on a payload whose first   *)
(* byte is any tag.                                                        *)
(***************************************************************************)
PayloadTags == 0..255

\* what follows the tag: nothing, or enough for the longest fixed part
PayloadBodies == { <<>>, Fill(8 + BLOCK_HASH_LENGTH + 4 + 2, 0) }

InitPayload ==
    /\ CodecOnlyInit
    /\ \E tag \in PayloadTags, body \in PayloadBodies :
         codec = [NoCodec EXCEPT !.phase = "payload_bytes", !.v = tag, !.b = <<tag>> \o body]

\* TransactionPayload::deserialize((cursor, len)) with len the payload's length
DeserializePayload ==
    /\ codec.phase = "payload_bytes"
    /\ \E build \in Builds :
         codec' = [codec EXCEPT
                     !.phase = "payload_read",
                     !.read = TransactionPayload_deserialize(codec.b, Len(codec.b), build)]
    /\ UNCHANGED connVars
    /\ UNCHANGED nodeVars
    /\ UNCHANGED bridgeVars
    /\ UNCHANGED mainVars
    /\ UNCHANGED hs
    /\ UNCHANGED peer_list
    /\ UNCHANGED dispatch
    /\ UNCHANGED outbound
    /\ UNCHANGED cliVars

NextPayload == DeserializePayload

SpecPayload == InitPayload /\ [][NextPayload]_vars

(***************************************************************************)
(* The length-prefixed byte strings of common.rs: a byte string is written *)
(* by a writer and read back by the matching reader, or bytes with a       *)
(* declared length are handed to a reader.  The state keeps the length and *)
(* the fill of the byte string and a summary of what was written and read. *)
(***************************************************************************)
BytestringLengths ==
    {0, 1, 2, 3, 1023, 1024, 1025, 4095, 4096, 4097, 65535, 65536, 65537, 65541}
BytestringFills == {0, 7}
BytestringKinds == {"short", "medium", "long"}
BytestringWriters == {"short", "long"}

LengthSize(kind) == IF kind = "short" THEN 2 ELSE IF kind = "medium" THEN 4 ELSE 8
LengthLimit(kind) ==
    IF kind = "short" THEN SHORT_LENGTH_LIMIT
    ELSE IF kind = "medium" THEN MEDIUM_LENGTH_LIMIT ELSE LONG_LENGTH_LIMIT

BytestringWrite(kind, bytes) ==
    IF kind = "short" THEN write_bytestring_short_length(bytes) ELSE write_bytestring(bytes)

BytestringRead(kind, buf) ==
    IF kind = "short" THEN read_bytestring_short_length(buf)
    ELSE IF kind = "medium" THEN read_bytestring_medium(buf) ELSE read_bytestring(buf)

\* a length prefix of the width of the kind that declares n bytes
DeclaredLength(kind, n) ==
    IF kind = "short" THEN WriteU16(n) ELSE IF kind = "medium" THEN WriteU32(n) ELSE WriteU64(n)

InitBytestring ==
    /\ CodecOnlyInit
    /\ \/ \E kind \in BytestringWriters, len \in BytestringLengths, fill \in BytestringFills :
            codec = [NoCodec EXCEPT !.phase = "bytestring_value",
                                    !.v = [kind |-> kind, len |-> len, fill |-> fill]]
       \/ \E kind \in BytestringKinds, len \in BytestringLengths, fill \in BytestringFills :
            /\ len < 65536
            /\ codec = [NoCodec EXCEPT !.phase = "bytestring_declared",
                                       !.v = [kind |-> kind, len |-> len, fill |-> fill]]

\* write_bytestring_short_length or write_bytestring, then the matching reader
WriteThenReadBytestring ==
    /\ codec.phase = "bytestring_value"
    /\ LET bytes == Fill(codec.v.len, codec.v.fill)
           out == BytestringWrite(codec.v.kind, bytes)
           size == LengthSize(codec.v.kind)
           back == BytestringRead(codec.v.kind, out)
       IN  codec' = [codec EXCEPT !.phase = "bytestring_read_back",
                                  !.out = [prefix |-> ReadBE(Take(out, size)),
                                           written |-> Len(out) - size],
                                  !.read = [ok |-> back.ok,
                                            same |-> back.ok /\ back.val = bytes
                                                       /\ back.rest = <<>>]]
    /\ UNCHANGED connVars
    /\ UNCHANGED nodeVars
    /\ UNCHANGED bridgeVars
    /\ UNCHANGED mainVars
    /\ UNCHANGED hs
    /\ UNCHANGED peer_list
    /\ UNCHANGED dispatch
    /\ UNCHANGED outbound
    /\ UNCHANGED cliVars

\* read_bytestring_short_length, read_bytestring_medium or read_bytestring on
\* a declared length followed by that many bytes
ReadDeclaredBytestring ==
    /\ codec.phase = "bytestring_declared"
    /\ LET bytes == Fill(codec.v.len, codec.v.fill)
           back == BytestringRead(codec.v.kind, DeclaredLength(codec.v.kind, codec.v.len) \o bytes)
       IN  codec' = [codec EXCEPT !.phase = "bytestring_read",
                                  !.read = [ok |-> back.ok,
                                            same |-> back.ok /\ back.val = bytes
                                                       /\ back.rest = <<>>]]
    /\ UNCHANGED connVars
    /\ UNCHANGED nodeVars
    /\ UNCHANGED bridgeVars
    /\ UNCHANGED mainVars
    /\ UNCHANGED hs
    /\ UNCHANGED peer_list
    /\ UNCHANGED dispatch
    /\ UNCHANGED outbound
    /\ UNCHANGED cliVars

NextBytestring == WriteThenReadBytestring \/ ReadDeclaredBytestring

SpecBytestring == InitBytestring /\ [][NextBytestring]_vars

(***************************************************************************)
(* CatchUpStatus values are written and read back, and byte strings are    *)
(* read and written back.  The state describes the value or the byte       *)
(* string by its fields and keeps a summary of the outcome.                *)
(***************************************************************************)
CatchUpJustifierCounts == {0, 1, 2, 1023, 1024, 1025}
CatchUpHeights == {0, 5, 16777216}
CatchUpHashFills == {1, 2}
\* the first byte of a byte string: is_request as any u8
CatchUpFirstBytes == {0, 1, 2, 255}
\* the bytes cut from the end of a byte string
CatchUpCuts == {0, 1}

\* the value described by d
CatchUpValue(d) ==
    [is_request |-> d.is_request,
     last_finalized_block |-> Fill(BLOCK_HASH_LENGTH, d.last),
     last_finalized_height |-> d.height,
     best_block |-> Fill(BLOCK_HASH_LENGTH, d.best),
     finalization_justifiers |-> [i \in 1..d.justifiers |-> Fill(BLOCK_HASH_LENGTH, i % 251)]]

\* the byte string described by d
CatchUpBytes(d) ==
    Let(<<d.first>> \o Fill(BLOCK_HASH_LENGTH, d.last) \o WriteU64(d.height)
            \o Fill(BLOCK_HASH_LENGTH, d.best) \o WriteU32(d.justifiers)
            \o Fill(BLOCK_HASH_LENGTH * d.justifiers, 3),
        LAMBDA whole : Take(whole, Len(whole) - d.cut))

InitCatchUp ==
    /\ CodecOnlyInit
    /\ \/ \E r \in BOOLEAN, l \in CatchUpHashFills, h \in CatchUpHeights, b \in CatchUpHashFills,
             n \in CatchUpJustifierCounts :
            codec = [NoCodec EXCEPT !.phase = "catchup_value",
                                    !.v = [is_request |-> r, last |-> l, height |-> h,
                                           best |-> b, justifiers |-> n]]
       \/ \E f \in CatchUpFirstBytes, l \in CatchUpHashFills, h \in CatchUpHeights,
             n \in CatchUpJustifierCounts, c \in CatchUpCuts :
            codec = [NoCodec EXCEPT !.phase = "catchup_bytes",
                                    !.v = [first |-> f, last |-> l, height |-> h, best |-> l,
                                           justifiers |-> n, cut |-> c]]

\* CatchUpStatus::serial, then CatchUpStatus::deserial
CatchUpSerialDeserial ==
    /\ codec.phase = "catchup_value"
    /\ LET status == CatchUpValue(codec.v)
           back == CatchUpStatus_deserial(CatchUpStatus_serial(status))
       IN  codec' = [codec EXCEPT !.phase = "catchup_read_back",
                                  !.read = [ok |-> back.ok,
                                            same |-> back.ok /\ back.val = status
                                                       /\ back.rest = <<>>]]
    /\ UNCHANGED connVars
    /\ UNCHANGED nodeVars
    /\ UNCHANGED bridgeVars
    /\ UNCHANGED mainVars
    /\ UNCHANGED hs
    /\ UNCHANGED peer_list
    /\ UNCHANGED dispatch
    /\ UNCHANGED outbound
    /\ UNCHANGED cliVars

\* CatchUpStatus::deserial, then CatchUpStatus::serial of what was read
CatchUpDeserialSerial ==
    /\ codec.phase = "catchup_bytes"
    /\ LET bytes == CatchUpBytes(codec.v)
           status == CatchUpStatus_deserial(bytes)
       IN  codec' = [codec EXCEPT !.phase = "catchup_written_back",
                                  !.read = [ok |-> status.ok,
                                            same |-> status.ok /\ status.rest = <<>>],
                                  !.out = IF status.ok
                                          THEN [same |-> CatchUpStatus_serial(status.val) = bytes,
                                                first |-> CatchUpStatus_serial(status.val)[1]]
                                          ELSE <<>>]
    /\ UNCHANGED connVars
    /\ UNCHANGED nodeVars
    /\ UNCHANGED bridgeVars
    /\ UNCHANGED mainVars
    /\ UNCHANGED hs
    /\ UNCHANGED peer_list
    /\ UNCHANGED dispatch
    /\ UNCHANGED outbound
    /\ UNCHANGED cliVars

NextCatchUp == CatchUpSerialDeserial \/ CatchUpDeserialSerial

SpecCatchUp == InitCatchUp /\ [][NextCatchUp]_vars

(***************************************************************************)
(* Pending blocks: PendingBlock::new is applied to two byte strings, and   *)
(* to the first one again after the block it holds was serialized.         *)
(***************************************************************************)
\* the bytes of a regular block with these fields and transactions
PendingBytes(slot, pointer, baker_id, proof, nonce, last_finalized, txs, signature) ==
    WriteU64(slot) \o Fill(BLOCK_HASH_LENGTH, pointer) \o WriteU64(baker_id)
        \o Fill(PROOF_LENGTH, proof) \o Fill(NONCE, nonce)
        \o Fill(BLOCK_HASH_LENGTH, last_finalized)
        \o write_multiple(serialize_list(txs)) \o write_bytestring_short_length(signature)

PendingTx(bare, arrival) == [signature |-> bare, arrival |-> arrival]

\* A block, the blocks that differ from it in one field, in the time of
\* arrival of a transaction only, or in where its transactions are cut, the
\* block followed by a byte, and byte strings that are no regular block.
PendingByteStrings ==
    { PendingBytes(1, 0, 5, 1, 2, 3, <<PendingTx(<<4, 5>>, 9)>>, <<8>>),
      PendingBytes(2, 0, 5, 1, 2, 3, <<PendingTx(<<4, 5>>, 9)>>, <<8>>),
      PendingBytes(1, 7, 5, 1, 2, 3, <<PendingTx(<<4, 5>>, 9)>>, <<8>>),
      PendingBytes(1, 0, 6, 1, 2, 3, <<PendingTx(<<4, 5>>, 9)>>, <<8>>),
      PendingBytes(1, 0, 5, 7, 2, 3, <<PendingTx(<<4, 5>>, 9)>>, <<8>>),
      PendingBytes(1, 0, 5, 1, 7, 3, <<PendingTx(<<4, 5>>, 9)>>, <<8>>),
      PendingBytes(1, 0, 5, 1, 2, 7, <<PendingTx(<<4, 5>>, 9)>>, <<8>>),
      PendingBytes(1, 0, 5, 1, 2, 3, <<PendingTx(<<4, 5>>, 9)>>, <<8, 8>>),
      PendingBytes(1, 0, 5, 1, 2, 3, <<PendingTx(<<4, 5>>, 9)>>, <<>>),
      PendingBytes(1, 0, 5, 1, 2, 3, <<PendingTx(<<4, 5>>, 10)>>, <<8>>),
      PendingBytes(1, 0, 5, 1, 2, 3, <<PendingTx(<<4, 6>>, 9)>>, <<8>>),
      PendingBytes(1, 0, 5, 1, 2, 3, <<>>, <<8>>),
      PendingBytes(1, 0, 5, 1, 2, 3, <<PendingTx(<<4>>, 9), PendingTx(<<5>>, 9)>>, <<8>>),
      PendingBytes(1, 0, 5, 1, 2, 3, <<PendingTx(<<4, 5>>, 9)>>, <<8>>) \o <<0>>,
      PendingBytes(0, 0, 5, 1, 2, 3, <<PendingTx(<<4, 5>>, 9)>>, <<8>>),
      Take(PendingBytes(1, 0, 5, 1, 2, 3, <<PendingTx(<<4, 5>>, 9)>>, <<8>>), 200) }

InitPending ==
    /\ CodecOnlyInit
    /\ \E a \in PendingByteStrings, b \in PendingByteStrings :
         codec = [NoCodec EXCEPT !.phase = "pending_bytes", !.v = [a |-> a, b |-> b]]

\* PendingBlock::new on both byte strings, and on the serialized block of
\* the first
PendingBlockNew ==
    /\ codec.phase = "pending_bytes"
    /\ LET a == PendingBlock_new(codec.v.a)
           b == PendingBlock_new(codec.v.b)
       IN  codec' = [codec EXCEPT !.phase = "pending_new",
                                  !.read = [a |-> a, b |-> b],
                                  !.out = IF a.ret = "Ok"
                                          THEN PendingBlock_new(GlobalState_Block_serial(a.block))
                                          ELSE <<>>]
    /\ UNCHANGED connVars
    /\ UNCHANGED nodeVars
    /\ UNCHANGED bridgeVars
    /\ UNCHANGED mainVars
    /\ UNCHANGED hs
    /\ UNCHANGED peer_list
    /\ UNCHANGED dispatch
    /\ UNCHANGED outbound
    /\ UNCHANGED cliVars

\* The pending block is serialized and made a pending block once more.
PendingBlockAgain ==
    /\ codec.phase = "pending_new"
    /\ codec.out # <<>>
    /\ codec.out.ret = "Ok"
    /\ codec' = [codec EXCEPT !.phase = "pending_again",
                              !.out = PendingBlock_new(GlobalState_Block_serial(codec.out.block))]
    /\ UNCHANGED connVars
    /\ UNCHANGED nodeVars
    /\ UNCHANGED bridgeVars
    /\ UNCHANGED mainVars
    /\ UNCHANGED hs
    /\ UNCHANGED peer_list
    /\ UNCHANGED dispatch
    /\ UNCHANGED outbound
    /\ UNCHANGED cliVars

NextPending == PendingBlockNew \/ PendingBlockAgain

SpecPending == InitPending /\ [][NextPending]_vars

(***************************************************************************)
(* get_random_nodes on a small set of buckets, with any count, and         *)
(* send_peer_list of a bootstrapper that knows more peers than it sends.   *)
(***************************************************************************)
SmallBuckets ==
    { [id |-> 1, networks |-> {100}], [id |-> 2, networks |-> {200}],
      [id |-> 3, networks |-> {100, 200}], [id |-> 4, networks |-> {}] }

\* two peers more than a peer list holds; the last one is in another network
BootstrapperBuckets ==
    { [id |-> i, networks |-> IF i = BOOTSTRAP_PEER_COUNT + 2 THEN {200} ELSE {100}] :
        i \in 1..(BOOTSTRAP_PEER_COUNT + 2) }

\* a peer that is in no bucket
StrangerId == 0

InitPeerList ==
    /\ conn = EstablishedConn
    /\ items = <<>>
    /\ rest = <<>>
    /\ tls = TlsSession_new
    /\ last = NoOp
    /\ queue = CircularQueue_with_capacity
    /\ established = {}
    /\ since = NeverInserted
    /\ lastSend = NoSend
    /\ InitBridgeIdle
    /\ InitMainIdle
    /\ InitHandshakeIdle
    /\ InitCodecIdle
    /\ InitDispatchIdle
    /\ InitOutboundIdle
    /\ InitCliIdle
    /\ \/ \E exclude \in {p.id : p \in SmallBuckets} \cup {StrangerId},
             count \in 0..Cardinality(SmallBuckets), networks \in SUBSET NetworkIds :
            peer_list = [NoPeerList EXCEPT !.pc = "call", !.buckets = SmallBuckets,
                                           !.exclude = exclude, !.count = count,
                                           !.networks = networks]
       \/ \E sender \in {1, BOOTSTRAP_PEER_COUNT + 2, StrangerId},
             networks \in {{100}, NetworkIds} :
            peer_list = [pc |-> "request", buckets |-> BootstrapperBuckets, sender |-> sender,
                         exclude |-> StrangerId, count |-> 0, networks |-> networks,
                         nodes |-> EmptyBag, reply |-> <<>>, counter |-> 0]

\* Buckets::get_random_nodes
GetRandomNodes ==
    /\ peer_list.pc = "call"
    /\ \E nodes \in get_random_nodes(peer_list.buckets, peer_list.exclude, peer_list.count,
                                     peer_list.networks) :
         peer_list' = [peer_list EXCEPT !.pc = "returned", !.nodes = nodes]
    /\ UNCHANGED connVars
    /\ UNCHANGED nodeVars
    /\ UNCHANGED bridgeVars
    /\ UNCHANGED mainVars
    /\ UNCHANGED hs
    /\ UNCHANGED codec
    /\ UNCHANGED dispatch
    /\ UNCHANGED outbound
    /\ UNCHANGED cliVars

\* send_peer_list: the random nodes, the PeerList response, its write into the
\* TLS session, which may fail, and the counter of sent messages
SendPeerList ==
    /\ peer_list.pc = "request"
    /\ \E nodes \in get_random_nodes(peer_list.buckets, peer_list.sender, BOOTSTRAP_PEER_COUNT,
                                     peer_list.networks) :
       \E written \in BOOLEAN :
         peer_list' = [peer_list EXCEPT
                         !.pc = IF written THEN "sent" ELSE "failed",
                         !.exclude = peer_list.sender,
                         !.count = BOOTSTRAP_PEER_COUNT,
                         !.nodes = nodes,
                         !.reply = IF written THEN [type |-> "PeerList", nodes |-> nodes]
                                   ELSE <<>>,
                         !.counter = IF written THEN @ + 1 ELSE @]
    /\ UNCHANGED connVars
    /\ UNCHANGED nodeVars
    /\ UNCHANGED bridgeVars
    /\ UNCHANGED mainVars
    /\ UNCHANGED hs
    /\ UNCHANGED codec
    /\ UNCHANGED dispatch
    /\ UNCHANGED outbound
    /\ UNCHANGED cliVars

NextPeerList == GetRandomNodes \/ SendPeerList

SpecPeerList == InitPeerList /\ [][NextPeerList]_vars

(***************************************************************************)
(* A connection dispatches the messages it receives to its handler table;  *)
(* the clock moves between the messages.                                   *)
(***************************************************************************)
MaxNow == 3
MaxDispatched == 2

DispatchMessages ==
    { [cat |-> "Request", kind |-> k] : k \in RequestTypes }
      \cup { [cat |-> "Response", kind |-> k] : k \in ResponseTypes }
      \cup { [cat |-> "Packet", kind |-> k] : k \in PacketTypes }
      \cup { [cat |-> "Unknown", kind |-> "None"], [cat |-> "Invalid", kind |-> "None"] }

InitDispatch ==
    /\ conn = EstablishedConn
    /\ items = <<>>
    /\ rest = <<>>
    /\ tls = TlsSession_new
    /\ last = NoOp
    /\ queue = CircularQueue_with_capacity
    /\ established = {}
    /\ since = NeverInserted
    /\ lastSend = NoSend
    /\ InitBridgeIdle
    /\ InitMainIdle
    /\ InitHandshakeIdle
    /\ InitCodecIdle
    /\ InitPeerListIdle
    /\ InitOutboundIdle
    /\ InitCliIdle
    /\ dispatch = [IdleDispatch EXCEPT !.now = 1]

\* get_current_stamp moves on
DispatchTick ==
    /\ dispatch.now < MaxNow
    /\ dispatch' = [dispatch EXCEPT !.now = @ + 1]
    /\ UNCHANGED connVars
    /\ UNCHANGED nodeVars
    /\ UNCHANGED bridgeVars
    /\ UNCHANGED mainVars
    /\ UNCHANGED hs
    /\ UNCHANGED codec
    /\ UNCHANGED peer_list
    /\ UNCHANGED outbound
    /\ UNCHANGED cliVars

\* process_complete_packet followed by drop_conn_if_unwanted!, with the
\* callbacks of the table that is in place
DispatchMessage ==
    /\ ~dispatch.closing
    /\ dispatch.dispatched < MaxDispatched
    /\ \E msg \in DispatchMessages, est \in HandlerResults :
         LET called == CalledCallbacks(CallbacksOf(dispatch.handlers), msg)
             res == MessageHandler_process_message(dispatch.handlers, msg, est)
             promoted == res = "Ok" /\ dispatch.status = "Untrusted"
         IN  dispatch' =
               [dispatch EXCEPT
                  !.dispatched = @ + 1,
                  !.last_seen = IF UpdatesLastSeen(called, msg) THEN dispatch.now ELSE @,
                  !.closing = res = "Unwanted",
                  !.status = IF promoted THEN "Established" ELSE @,
                  !.handlers = IF promoted THEN "full" ELSE @,
                  !.last = [msg |-> msg, pre |-> dispatch.status, called |-> called,
                            seen_before |-> dispatch.last_seen, at |-> dispatch.now,
                            res |-> res]]
    /\ UNCHANGED connVars
    /\ UNCHANGED nodeVars
    /\ UNCHANGED bridgeVars
    /\ UNCHANGED mainVars
    /\ UNCHANGED hs
    /\ UNCHANGED codec
    /\ UNCHANGED peer_list
    /\ UNCHANGED outbound
    /\ UNCHANGED cliVars

NextDispatch == DispatchTick \/ DispatchMessage

SpecDispatch == InitDispatch /\ [][NextDispatch]_vars

(***************************************************************************)
(* Outbound messages: Connection::serialize_bytes and the serialize_bytes  *)
(* of the handlers write into the same TLS session.  session holds the     *)
(* writes that wait in the session, socket the bytes handed to the socket. *)
(***************************************************************************)
MaxPassed == 2

OutboundPackets == { <<>>, <<7>>, Body("Ping", <<>>) }

\* Connection::write_to_tls: one write_all, which may fail
write_to_tls(o, bytes, ok) ==
    [o EXCEPT !.messages_sent = @ + 1,
              !.session = IF ok THEN Append(@, bytes) ELSE @]

\* Connection::flush_tls on the session of o, with the socket outcome wout
Outbound_flush_tls(o, wout) ==
    LET wants_write == o.session # <<>> /\ ~o.closing
    IN  IF wants_write
        THEN IF wout \in {"WouldBlock", "WriteZero", "Interrupted"}
             THEN [o |-> o, ret |-> "Err"]
             ELSE IF wout = "Other"
             THEN [o |-> [o EXCEPT !.closing = TRUE], ret |-> "Err"]
             ELSE [o |-> [o EXCEPT !.socket = @ \o FlattenWrites(o.session),
                                   !.session = <<>>],
                   ret |-> "Ok"]
        ELSE [o |-> o, ret |-> "Ok"]

\* Connection::serialize_bytes; w1 and w2 say whether the two writes succeed
Connection_serialize_bytes(o, pkt, w1, w2, wout) ==
    Let(write_to_tls(o, WriteU32(Len(pkt)), w1), LAMBDA o1 :
    IF ~w1 THEN [o |-> o1, ret |-> "Err", wrote |-> <<>>, flushed |-> FALSE] ELSE
    Let(write_to_tls(o1, pkt, w2), LAMBDA o2 :
    IF ~w2 THEN [o |-> o2, ret |-> "Err", wrote |-> <<WriteU32(Len(pkt))>>, flushed |-> FALSE]
    ELSE
    Let(Outbound_flush_tls(o2, wout), LAMBDA f :
        [o |-> f.o, ret |-> f.ret, wrote |-> <<WriteU32(Len(pkt)), pkt>>, flushed |-> TRUE])))

\* serialize_bytes of handler_utils.rs on the session of o
Handler_serialize_bytes(o, pkt, w1, w2) ==
    LET writes == serialize_bytes(pkt)
    IN  IF ~w1 THEN [o |-> o, ret |-> "Err", wrote |-> <<>>, flushed |-> FALSE]
        ELSE IF ~w2
        THEN [o |-> [o EXCEPT !.session = Append(@, writes[1])], ret |-> "Err",
              wrote |-> <<writes[1]>>, flushed |-> FALSE]
        ELSE [o |-> [o EXCEPT !.session = @ \o writes], ret |-> "Ok",
              wrote |-> writes, flushed |-> FALSE]

InitOutbound ==
    /\ conn = EstablishedConn
    /\ items = <<>>
    /\ rest = <<>>
    /\ tls = TlsSession_new
    /\ last = NoOp
    /\ queue = CircularQueue_with_capacity
    /\ established = {}
    /\ since = NeverInserted
    /\ lastSend = NoSend
    /\ InitBridgeIdle
    /\ InitMainIdle
    /\ InitHandshakeIdle
    /\ InitCodecIdle
    /\ InitPeerListIdle
    /\ InitDispatchIdle
    /\ outbound = IdleOutbound
    /\ InitCliIdle

\* A message is passed to Connection::serialize_bytes.
ConnectionSerializeBytes ==
    /\ outbound.passed < MaxPassed
    /\ \E pkt \in OutboundPackets, w1 \in BOOLEAN, w2 \in BOOLEAN, wout \in WriteOutcomes :
         LET r == Connection_serialize_bytes(outbound, pkt, w1, w2, wout)
         IN  outbound' = [r.o EXCEPT !.passed = @ + 1,
                                     !.last = [side |-> "connection", pkt |-> pkt,
                                               ret |-> r.ret, wrote |-> r.wrote,
                                               flushed |-> r.flushed,
                                               sent_before |-> outbound.messages_sent]]
    /\ UNCHANGED connVars
    /\ UNCHANGED nodeVars
    /\ UNCHANGED bridgeVars
    /\ UNCHANGED mainVars
    /\ UNCHANGED hs
    /\ UNCHANGED codec
    /\ UNCHANGED peer_list
    /\ UNCHANGED dispatch
    /\ UNCHANGED cliVars

\* A handler passes a reply (handshake, ping, peer list) to serialize_bytes.
HandlerSerializeBytes ==
    /\ outbound.passed < MaxPassed
    /\ \E pkt \in OutboundPackets, w1 \in BOOLEAN, w2 \in BOOLEAN :
         LET r == Handler_serialize_bytes(outbound, pkt, w1, w2)
         IN  outbound' = [r.o EXCEPT !.passed = @ + 1,
                                     !.last = [side |-> "handler", pkt |-> pkt,
                                               ret |-> r.ret, wrote |-> r.wrote,
                                               flushed |-> r.flushed,
                                               sent_before |-> outbound.messages_sent]]
    /\ UNCHANGED connVars
    /\ UNCHANGED nodeVars
    /\ UNCHANGED bridgeVars
    /\ UNCHANGED mainVars
    /\ UNCHANGED hs
    /\ UNCHANGED codec
    /\ UNCHANGED peer_list
    /\ UNCHANGED dispatch
    /\ UNCHANGED cliVars

NextOutbound == ConnectionSerializeBytes \/ HandlerSerializeBytes

SpecOutbound == InitOutbound /\ [][NextOutbound]_vars

(***************************************************************************)
(* SpecPeerResponse: the PeerList response in setup_process_output.        *)
(***************************************************************************)
MaxPeerList == 3

\* the number of Node peers get_peer_stats reports (a usize)
PeerCounts == {0, 1, 2, 3, 254, 255, 256, 257}

\* conf.connection.desired_nodes (a u8)
DesiredNodes == {0, 1, 2, 3, 255}

\* the results of connect() for the peers of the list, in order
ConnectResults == UNION { [1..n -> {"Ok", "Err"}] : n \in 0..MaxPeerList }

\* peer_count as u8
as_u8(n) == n % 256

\* new_peers + peer_count as u8: the addition of two u8 overflows above 255
add_u8(a, b, build) ==
    IF a + b > 255
    THEN [panic |-> build = "debug", val |-> (a + b) % 256]
    ELSE [panic |-> FALSE, val |-> a + b]

\* for peer_node in peers { if connect(..).is_ok() { new_peers += 1; }
\*                          if new_peers + peer_count as u8 >= desired { break; } }
RECURSIVE connect_peers(_, _, _, _, _, _)
connect_peers(results, new_peers, connects, peer_count, desired_nodes, build) ==
    IF results = <<>>
    THEN [connects |-> connects, new_peers |-> new_peers, panicked |-> FALSE]
    ELSE Let(add_u8(new_peers, IF Head(results) = "Ok" THEN 1 ELSE 0, build), LAMBDA np :
         IF np.panic
         THEN [connects |-> connects + 1, new_peers |-> new_peers, panicked |-> TRUE]
         ELSE Let(add_u8(np.val, as_u8(peer_count), build), LAMBDA total :
              IF total.panic
              THEN [connects |-> connects + 1, new_peers |-> np.val, panicked |-> TRUE]
              ELSE IF total.val >= desired_nodes
              THEN [connects |-> connects + 1, new_peers |-> np.val, panicked |-> FALSE]
              ELSE connect_peers(Tail(results), np.val, connects + 1, peer_count,
                                 desired_nodes, build)))

InitPeerResponse ==
    /\ CliOnlyInit
    /\ startup = NoStartup
    /\ \E c \in PeerCounts, d \in DesiredNodes, results \in ConnectResults :
         peer_resp = [NoPeerResp EXCEPT !.pc = "received", !.peer_count = c,
                                        !.desired_nodes = d, !.results = results]

\* The handler of NetworkResponse::PeerList
ProcessPeerList ==
    /\ peer_resp.pc = "received"
    /\ \E build \in Builds :
         LET r == connect_peers(peer_resp.results, 0, 0, peer_resp.peer_count,
                                peer_resp.desired_nodes, build)
         IN  peer_resp' = [peer_resp EXCEPT !.pc = "done", !.connects = r.connects,
                                            !.new_peers = r.new_peers,
                                            !.panicked = r.panicked]
    /\ UNCHANGED startup
    /\ UNCHANGED connVars
    /\ UNCHANGED nodeVars
    /\ UNCHANGED bridgeVars
    /\ UNCHANGED mainVars
    /\ UNCHANGED hs
    /\ UNCHANGED codec
    /\ UNCHANGED peer_list
    /\ UNCHANGED dispatch
    /\ UNCHANGED outbound

NextPeerResponse == ProcessPeerList

SpecPeerResponse == InitPeerResponse /\ [][NextPeerResponse]_vars

(***************************************************************************)
(* SpecStartup: main from instantiate_node to the bootstrap, with the      *)
(* event loop accepting connections once it is spawned.                    *)
(***************************************************************************)
\* A main that spawns the event loop before it loads the ban list.
main_after_spawn_first(pc) ==
    CASE pc = "instantiate_node" -> "spawn"
      [] pc = "spawn" -> "get_banlist"
      [] pc = "get_banlist" -> "create_connections"
      [] pc = "create_connections" -> "bootstrap"
      [] pc = "bootstrap" -> "running"

\* main: the statement that follows pc
main_after(pc) ==
    CASE pc = "instantiate_node" -> "get_banlist"
      [] pc = "get_banlist" -> "spawn"
      [] pc = "spawn" -> "create_connections"
      [] pc = "create_connections" -> "bootstrap"
      [] pc = "bootstrap" -> "running"

\* the orders in which get_banlist can return the entries
RECURSIVE OrdersOf(_)
OrdersOf(set) ==
    IF set = {} THEN {<<>>}
    ELSE UNION { { <<x>> \o o : o \in OrdersOf(set \ {x}) } : x \in set }

\* node.connect to each of the targets: the ban set is consulted
connect_all(st, targets) ==
    [st EXCEPT !.initiated = @ \cup (targets \ st.banned),
               !.refused = @ \cup (targets \cap st.banned)]

InitStartup ==
    /\ CliOnlyInit
    /\ peer_resp = NoPeerResp
    /\ \E persisted \in SUBSET Peers, has_banlist, nn, nb \in BOOLEAN :
         /\ ~has_banlist => persisted = {}
         /\ startup = [NoStartup EXCEPT !.pc = "instantiate_node", !.persisted = persisted,
                                        !.has_banlist = has_banlist,
                                        !.no_network = nn, !.no_bootstrap_dns = nb]

\* let (mut node, pkt_out) = instantiate_node(..)
MainInstantiateNode ==
    /\ startup.pc = "instantiate_node"
    /\ startup' = [startup EXCEPT !.pc = main_after("instantiate_node")]
    /\ UNCHANGED peer_resp
    /\ UNCHANGED connVars
    /\ UNCHANGED nodeVars
    /\ UNCHANGED bridgeVars
    /\ UNCHANGED mainVars
    /\ UNCHANGED hs
    /\ UNCHANGED codec
    /\ UNCHANGED peer_list
    /\ UNCHANGED dispatch
    /\ UNCHANGED outbound

\* match db.get_banlist(): Some(nodes) starts the loop, None creates the list
MainGetBanlist ==
    /\ startup.pc = "get_banlist"
    /\ IF startup.has_banlist
       THEN \E nodes \in OrdersOf(startup.persisted) :
              startup' = [startup EXCEPT
                            !.todo = nodes,
                            !.pc = IF nodes = <<>> THEN main_after("get_banlist")
                                   ELSE "ban_node"]
       ELSE startup' = [startup EXCEPT !.has_banlist = TRUE,
                                       !.pc = main_after("get_banlist")]
    /\ UNCHANGED peer_resp
    /\ UNCHANGED connVars
    /\ UNCHANGED nodeVars
    /\ UNCHANGED bridgeVars
    /\ UNCHANGED mainVars
    /\ UNCHANGED hs
    /\ UNCHANGED codec
    /\ UNCHANGED peer_list
    /\ UNCHANGED dispatch
    /\ UNCHANGED outbound

\* for n in nodes { node.ban_node(n); }
MainBanNode ==
    /\ startup.pc = "ban_node"
    /\ startup' = [startup EXCEPT
                     !.banned = @ \cup {Head(startup.todo)},
                     !.todo = Tail(@),
                     !.pc = IF Tail(startup.todo) = <<>> THEN main_after("get_banlist")
                            ELSE "ban_node"]
    /\ UNCHANGED peer_resp
    /\ UNCHANGED connVars
    /\ UNCHANGED nodeVars
    /\ UNCHANGED bridgeVars
    /\ UNCHANGED mainVars
    /\ UNCHANGED hs
    /\ UNCHANGED codec
    /\ UNCHANGED peer_list
    /\ UNCHANGED dispatch
    /\ UNCHANGED outbound

\* node.spawn()
MainSpawn ==
    /\ startup.pc = "spawn"
    /\ startup' = [startup EXCEPT !.spawned = TRUE, !.pc = main_after("spawn")]
    /\ UNCHANGED peer_resp
    /\ UNCHANGED connVars
    /\ UNCHANGED nodeVars
    /\ UNCHANGED bridgeVars
    /\ UNCHANGED mainVars
    /\ UNCHANGED hs
    /\ UNCHANGED codec
    /\ UNCHANGED peer_list
    /\ UNCHANGED dispatch
    /\ UNCHANGED outbound

\* if !conf.cli.no_network { create_connections_from_config(..) }
MainCreateConnections ==
    /\ startup.pc = "create_connections"
    /\ \E connect_to \in (IF startup.no_network THEN {{}} ELSE SUBSET Peers) :
         startup' = [connect_all(startup, connect_to) EXCEPT
                       !.pc = main_after("create_connections")]
    /\ UNCHANGED peer_resp
    /\ UNCHANGED connVars
    /\ UNCHANGED nodeVars
    /\ UNCHANGED bridgeVars
    /\ UNCHANGED mainVars
    /\ UNCHANGED hs
    /\ UNCHANGED codec
    /\ UNCHANGED peer_list
    /\ UNCHANGED dispatch
    /\ UNCHANGED outbound

\* if !conf.cli.no_network && !conf.connection.no_bootstrap_dns { bootstrap(..) }
MainBootstrap ==
    /\ startup.pc = "bootstrap"
    /\ \E bootstrap_nodes \in (IF startup.no_network \/ startup.no_bootstrap_dns
                                THEN {{}} ELSE SUBSET Peers) :
         startup' = [connect_all(startup, bootstrap_nodes) EXCEPT
                       !.pc = main_after("bootstrap")]
    /\ UNCHANGED peer_resp
    /\ UNCHANGED connVars
    /\ UNCHANGED nodeVars
    /\ UNCHANGED bridgeVars
    /\ UNCHANGED mainVars
    /\ UNCHANGED hs
    /\ UNCHANGED codec
    /\ UNCHANGED peer_list
    /\ UNCHANGED dispatch
    /\ UNCHANGED outbound

\* The event loop accepts a connection of a peer: the ban set is consulted.
EventLoopAccept ==
    /\ startup.spawned
    /\ \E p \in Peers \ (startup.accepted \cup startup.refused) :
         startup' = IF p \in startup.banned
                    THEN [startup EXCEPT !.refused = @ \cup {p}]
                    ELSE [startup EXCEPT !.accepted = @ \cup {p}]
    /\ UNCHANGED peer_resp
    /\ UNCHANGED connVars
    /\ UNCHANGED nodeVars
    /\ UNCHANGED bridgeVars
    /\ UNCHANGED mainVars
    /\ UNCHANGED hs
    /\ UNCHANGED codec
    /\ UNCHANGED peer_list
    /\ UNCHANGED dispatch
    /\ UNCHANGED outbound

NextStartup ==
    \/ MainInstantiateNode \/ MainGetBanlist \/ MainBanNode \/ MainSpawn
    \/ MainCreateConnections \/ MainBootstrap \/ EventLoopAccept

SpecStartup == InitStartup /\ [][NextStartup]_vars

(***************************************************************************)
(* Properties.                                                             *)
(***************************************************************************)
AllFrames(its) == \A i \in 1..Len(its) : its[i].type = "frame"
Bodies(its) == [i \in 1..Len(its) |-> its[i].bytes]
DeliveredBodies == [i \in 1..Len(conn.delivered) |-> conn.delivered[i].body]

\* C1: for a stream of frames, whatever the split into chunks, once the
\* whole stream has been fed the messages handed to process_complete_packet
\* are exactly the frame bodies, in order.
C1_AnySplitDeliversFrames ==
    (rest = <<>> /\ AllFrames(items)) => DeliveredBodies = Bodies(items)

\* C2: while Untrusted, a message that is not a Handshake marks the
\* connection closing and leaves it Untrusted; a Handshake does not mark it
\* closing.
C2_PreHandshakeGate ==
    \A i \in 1..Len(conn.delivered) :
        LET d == conn.delivered[i] IN
        d.pre = "Untrusted" =>
            IF IsHandshake(d.msg) THEN d.closing = d.was_closing
            ELSE d.closing /\ d.post = "Untrusted"

\* C3: the status goes from Untrusted to Established only by a successfully
\* processed Handshake request or response, and the full handler table is
\* installed exactly then.
C3_EstablishedOnlyByHandshake ==
    /\ \A i \in 1..Len(conn.delivered) :
          LET d == conn.delivered[i] IN
          (d.pre = "Untrusted" /\ d.post = "Established")
              => (IsHandshake(d.msg) /\ d.res = "Ok")
    /\ (conn.handlers = "full") <=> (conn.status = "Established")
    /\ (conn.status = "Established") =>
          \E i \in 1..Len(conn.delivered) : conn.delivered[i].post = "Established"

HasPacketFrame(its) ==
    \E i \in 1..Len(its) :
        its[i].type = "frame" /\ NetworkMessage_deserialize(its[i].bytes).cat = "Packet"

\* C4: on a Bootstrapper no DirectMessage or BroadcastedMessage frame is
\* dispatched, and once such a frame has been received the connection is
\* closing, for every split of the stream.
C4_BootstrapperRefusesPackets ==
    conn.local_peer_type = "Bootstrapper" =>
        /\ \A i \in 1..Len(conn.delivered) : conn.delivered[i].msg.cat # "Packet"
        /\ (rest = <<>> /\ AllFrames(items) /\ HasPacketFrame(items)) => conn.closing

C6_DuplicateDropped ==
    [][ (/\ lastSend'.seq # lastSend.seq
         /\ lastSend'.broadcast
         /\ since[lastSend'.fp].ins
         /\ Cardinality(since[lastSend'.fp].others) < Capacity)
        => (/\ lastSend'.seen
            /\ lastSend'.copies = NoCopies
            /\ queue' = queue) ]_vars

C6_Witness ==
    /\ lastSend.broadcast /\ lastSend.seen
    /\ lastSend.age = Capacity - 1
    /\ BroadcastTargets(established, lastSend.net, lastSend.origin) # {}
    /\ lastSend.copies = NoCopies

\* C7: the ring never holds more than Capacity fingerprints and evicts in
\* insertion order: a fingerprint is in the ring exactly when it was inserted
\* and fewer than Capacity distinct others were inserted after it; a lookup
\* reports membership; a hit leaves the ring as it is; a miss appends the
\* fingerprint, dropping the oldest one of a full ring.
C7_RingFifo ==
    /\ [](/\ Len(queue) <= Capacity
          /\ \A h \in Fingerprints :
                h \in Elems(queue)
                    <=> (since[h].ins /\ Cardinality(since[h].others) < Capacity)
          /\ \A i, j \in 1..Len(queue) :
                i < j => queue[j] \in since[queue[i]].others)
    /\ [][ (lastSend'.seq # lastSend.seq /\ lastSend'.broadcast)
           => /\ lastSend'.seen = (lastSend'.fp \in Elems(queue))
              /\ lastSend'.seen => queue' = queue
              /\ ~lastSend'.seen =>
                    queue' = Append(IF Len(queue) = Capacity THEN Tail(queue) ELSE queue,
                                    lastSend'.fp) ]_vars

C7_Witness ==
    /\ lastSend.broadcast /\ ~lastSend.seen
    /\ lastSend.age >= Capacity
    /\ Len(queue) = Capacity
    /\ queue[Capacity] = lastSend.fp


\* C8: a chunk that starts, at a frame boundary, with a length prefix above
\* 256 MiB: the prefix delivers nothing, allocates no buffer, leaves
\* expected_size 0 and closing as it was, and the rest of the chunk is
\* parsed as if the prefix had not been there.
C8_OversizeHeaderDiscarded ==
    [][ LET chunk == Take(rest, Len(rest) - Len(rest')) IN
        (conn.expected_size = 0 /\ Len(chunk) >= 4
         /\ ReadU32(Take(chunk, 4)) > MaxPacketSize)
        => /\ Len(chunk) < 8 =>
                /\ conn'.delivered = conn.delivered
                /\ conn'.closing = conn.closing
                /\ conn'.expected_size = 0
                /\ conn'.pkt_buffer = conn.pkt_buffer
           /\ \E est \in HandlerResults :
                conn' = incoming_plaintext([conn EXCEPT !.ret = "Ok"], Drop(chunk, 4), est)
      ]_vars

C8_Witness ==
    /\ Len(items) = 2 /\ items[1].type = "oversize" /\ items[2].type = "frame"
    /\ rest = <<>>
    /\ DeliveredBodies = <<items[2].bytes>>
    /\ conn.expected_size = 0

\* C9: closed is set only at the end of a ready() call that finds closing set
\* and the session not wanting to read, every such call sets it, and with
\* ready events repeating and the session in the end not wanting to read a
\* closing connection becomes closed.
C9_CooperativeClose ==
    /\ [](conn.closed => conn.closing)
    /\ [][ (~conn.closed /\ conn'.closed)
             => (last'.op = "ready" /\ last'.ret = "Ok" /\ ~tls'.wants_read) ]_vars
    /\ []((last.op = "ready" /\ last.ret = "Ok" /\ conn.closing /\ ~tls.wants_read)
             => conn.closed)
    /\ (([]<>(last.seq = 0) /\ []<>(last.seq = 1) /\ <>[](~tls.wants_read))
             => (conn.closing ~> conn.closed))

C9_Witness ==
    conn.closed /\ last.op = "ready" /\ conn.closing /\ ~tls.wants_read

FlushTransient == {"WouldBlock", "WriteZero", "Interrupted"}

\* C10: a WouldBlock, WriteZero or Interrupted write error is returned
\* without marking the connection closing and the data stays queued; any
\* other write error sets closing; a WouldBlock read is 0 bytes read and any
\* other read error sets closing.
C10_TransientIoErrors ==
    /\ last.wres \in FlushTransient =>
          (last.ret = "Err" /\ ~conn.closing /\ tls.pending = last.wpending)
    /\ last.wres = "Other" => (last.ret = "Err" /\ conn.closing)
    /\ last.rres = "WouldBlock" => (last.rsize = "Zero" /\ last.rafter = last.rbefore)
    /\ last.rres = "Other" => (last.rsize = "Err" /\ last.rafter)

C10_Witness ==
    last.wres = "WriteZero" /\ tls.pending > 0 /\ ~conn.closing


\* C11: when processing a complete frame returns an error, the connection
\* is marked closing if the error is an UnwantedMessageError, bare or inside
\* the FunctorError of the handler graph; any other error leaves closing and
\* status as they were.
C11_OnlyUnwantedCloses ==
    \A i \in 1..Len(conn.delivered) :
        LET d == conn.delivered[i] IN
        d.res # "Ok" =>
            IF d.res \in {"Unwanted", "FunctorUnwanted"}
            THEN d.closing
            ELSE d.closing = d.was_closing /\ d.post = d.pre

\* C12: no message taken from the packet queue terminates the bridge
\* thread: after every message the loop is still running.
C12_BridgeNeverTerminates == bridge_alive

PacketTypeValues == { PACKET_TYPE[k] : k \in DOMAIN PACKET_TYPE }

\* C13: a packet whose 2-byte consensus sub-type is not one of the eight
\* defined ones is dropped: send_msg_to_baker returns success, the baker is
\* not called, nothing is sent, the loop goes on and no connection is closed.
C13_UnknownSubTypeDropped ==
    (/\ bridge_last.msg.cat = "Packet"
     /\ Len(bridge_last.msg.message) >= PAYLOAD_TYPE_LENGTH
     /\ ReadBE(Take(bridge_last.msg.message, PAYLOAD_TYPE_LENGTH)) \notin PacketTypeValues)
    => /\ bridge_last.baker_ret = "Ok"
       /\ bridge_last.calls = <<>>
       /\ bridge_last.sends = <<>>
       /\ queue = bridge_last.queue_before
       /\ bridge_alive
       /\ ~conn.closing

C13_Witness ==
    /\ bridge_last.msg.kind = "BroadcastedMessage"
    /\ bridge_last.msg.message = WriteU16(8) \o <<1>>
    /\ bridge_last.baker_ret = "Ok"
    /\ Len(baker_calls) = 1

\* C15: the reply to a catch-up request goes to the requesting peer only,
\* as a direct message: broadcast is false, no other peer gets a copy and
\* the dedup ring is not touched.
C15_CatchupReplyDirect ==
    \A i \in 1..Len(bridge_last.sends) :
        /\ bridge_last.sends[i].target = bridge_last.msg.peer
        /\ ~bridge_last.sends[i].broadcast
        /\ \A p \in Peers :
             bridge_last.copies[i][p] = IF p = bridge_last.msg.peer THEN 1 ELSE 0
        /\ queue = bridge_last.queue_before

\* C16: when the baker does not have the item of a catch-up request (the
\* leading 8-byte field of its answer is zero) nothing is sent to any peer,
\* the handler returns success and no connection is closed.
C16_MissingItemSilent ==
    (bridge_last.answer = BakerMissing)
    => /\ bridge_last.sends = <<>>
       /\ bridge_last.copies = <<>>
       /\ bridge_last.baker_ret = "Ok"
       /\ queue = bridge_last.queue_before
       /\ bridge_alive
       /\ ~conn.closing

C16_Witness ==
    /\ bridge_last.answer = BakerMissing
    /\ bridge_last.calls = <<"get_indexed_finalization">>
    /\ bridge_last.msg.peer = "p2"
    /\ bridge_last.baker_ret = "Ok"

C14_ByPointAfterEveryHandshake ==
    \A p \in handshaken : by_point[p] = 1

\* C17: every worker sends what its queue holds with the tag and the
\* routing of the queue: blocks, finalization messages and finalization
\* records with no target and broadcast = true, catch-up requests and
\* point-to-point finalization messages with broadcast = false to the
\* receiver of the item; within a queue, in the order of the queue.
C17_WorkersTagAndRoute ==
    \A q \in OutQueues :
        /\ \A i \in 1..Len(worker_sent[q]) :
             LET w == worker_sent[q][i]
                 tag == ReadBE(Take(w.args.bytes, PAYLOAD_TYPE_LENGTH))
                 rest_bytes == Drop(w.args.bytes, PAYLOAD_TYPE_LENGTH)
             IN  /\ q = "block" =>
                        /\ w.args.target = "None" /\ w.args.broadcast
                        /\ tag = PACKET_TYPE.CONSENSUS_BLOCK /\ rest_bytes = w.item.bytes
                 /\ q = "finalization" =>
                        /\ w.args.target = "None" /\ w.args.broadcast
                        /\ tag = PACKET_TYPE.CONSENSUS_FINALIZATION
                        /\ rest_bytes = w.item.bytes
                 /\ q = "finalization_record" =>
                        /\ w.args.target = "None" /\ w.args.broadcast
                        /\ tag = PACKET_TYPE.CONSENSUS_FINALIZATION_RECORD
                        /\ rest_bytes = w.item.bytes
                 /\ q = "catchup" =>
                        /\ w.args.target = w.item.receiver_id /\ ~w.args.broadcast
                        /\ w.item.variant = "BlockByHash" =>
                              /\ tag = PACKET_TYPE.CONSENSUS_CATCHUP_REQUEST_BLOCK_BY_HASH
                              /\ rest_bytes = w.item.bytes
                        /\ w.item.variant = "FinalizationRecordByHash" =>
                              /\ tag = PACKET_TYPE.CONSENSUS_CATCHUP_REQUEST_FINALIZATION_RECORD_BY_HASH
                              /\ rest_bytes = w.item.bytes
                        /\ w.item.variant = "FinalizationRecordByIndex" =>
                              /\ tag = PACKET_TYPE.CONSENSUS_CATCHUP_REQUEST_FINALIZATION_RECORD_BY_INDEX
                              /\ Len(rest_bytes) = 8 /\ ReadBE(rest_bytes) = w.item.index
                 /\ q = "finalization_catchup" =>
                        /\ w.args.target = w.item.receiver_id /\ ~w.args.broadcast
                        /\ tag = PACKET_TYPE.CONSENSUS_FINALIZATION
                        /\ rest_bytes = w.item.bytes
        /\ \A i, j \in 1..Len(worker_sent[q]) :
             i < j => worker_sent[q][i].n < worker_sent[q][j].n
        /\ \A i \in 1..Len(worker_sent[q]), j \in 1..Len(out_queue[q]) :
             worker_sent[q][i].n < out_queue[q][j].n

C17_Witness ==
    /\ Len(worker_sent["catchup"]) = 2
    /\ worker_sent["catchup"][1].item.variant = "FinalizationRecordByIndex"
    /\ worker_sent["catchup"][1].args.target = "p2"
    /\ worker_sent["catchup"][2].item.variant = "BlockByHash"
    /\ worker_sent["catchup"][2].args.target = "p1"

\* C19: the responder writes the frame of its Handshake response before
\* the frame of its Ping; the framer of the peer hands them on in that
\* order, the Handshake response then the Ping; the counter of sent
\* messages has grown by exactly 2 once the pair is written.
C19_HandshakeBeforePing ==
    LET H == Body("HandshakeResponse", hs.payload)
        P == Body("Ping", <<>>)
        bodies == [i \in 1..Len(conn.delivered) |-> conn.delivered[i].body]
    IN  /\ hs.pc \in {"count", "done"} => FlattenWrites(hs.written) = Frame(H) \o Frame(P)
        /\ Len(hs.written) <= 2 =>
              FlattenWrites(hs.written) = Take(Frame(H), Len(FlattenWrites(hs.written)))
        /\ hs.pc = "done" => hs.counter = hs.before + 2
        /\ hs.pc # "done" => hs.counter = hs.before
        /\ bodies = Take(<<H, P>>, Len(bodies))
        /\ hs.read >= 2 => Len(bodies) >= 1 /\ conn.delivered[1].msg.kind = "HandshakeResponse"
        /\ hs.read = 4 => Len(bodies) = 2 /\ conn.delivered[2].msg.kind = "Ping"

C19_Witness ==
    /\ hs.pc = "done"
    /\ hs.read = 4
    /\ Len(conn.delivered) = 2
    /\ conn.delivered[1].msg.kind = "HandshakeResponse"
    /\ conn.delivered[2].msg.kind = "Ping"
    /\ hs.counter = hs.before + 2

\* C20: a regular block that is serialized and deserialized comes back
\* with the same slot, pointer, baker_id, proof, nonce, last_finalized,
\* transaction bytes and signature; a well-formed byte string (one that is
\* a block and nothing more) that is deserialized and serialized comes
\* back as the same bytes.
C20_BlockRoundTrip ==
    /\ codec.phase = "read_back" =>
          /\ codec.read.ok
          /\ codec.read.rest = <<>>
          /\ codec.read.val.slot = codec.v.slot
          /\ codec.read.val.data.variant = "Regular"
          /\ codec.read.val.data.pointer = codec.v.data.pointer
          /\ codec.read.val.data.baker_id = codec.v.data.baker_id
          /\ codec.read.val.data.proof = codec.v.data.proof
          /\ codec.read.val.data.nonce = codec.v.data.nonce
          /\ codec.read.val.data.last_finalized = codec.v.data.last_finalized
          /\ codec.read.val.data.transactions = codec.v.data.transactions
          /\ codec.read.val.data.signature = codec.v.data.signature
    /\ codec.phase = "written_back" /\ codec.read.ok /\ codec.read.rest = <<>> =>
          codec.out = codec.b

C20_Witness ==
    /\ codec.phase = "read_back"
    /\ codec.v.slot = 258
    /\ Len(codec.v.data.signature) = SHORT_LENGTH_LIMIT
    /\ Len(codec.v.data.transactions) > 8 + 2 * 16
    /\ codec.read.ok
    /\ codec.read.val.data.signature = codec.v.data.signature

\* The fields of the regular block read are those of the block written.
SameRegularFields(r, v) ==
    /\ r.slot = v.slot
    /\ r.data.variant = "Regular"
    /\ r.data.pointer = v.data.pointer
    /\ r.data.baker_id = v.data.baker_id
    /\ r.data.proof = v.data.proof
    /\ r.data.nonce = v.data.nonce
    /\ r.data.last_finalized = v.data.last_finalized
    /\ r.data.transactions = v.data.transactions
    /\ r.data.signature = v.data.signature

\* C21: the two Block codecs use the same layout of a regular block: what
\* the consensus crate serializes, the global state deserializes with the
\* same values of the fields, and the other way round.
C21_SameLayout ==
    codec.phase \in {"globalstate_read", "consensus_read"} =>
        codec.read.ok /\ SameRegularFields(codec.read.val, codec.v)

\* C22: a deserialized block is the genesis variant exactly if its slot is
\* 0; the body of a genesis block is the bytes after the slot, and its
\* pointer() and last_finalized() are None; a block of any other slot is
\* regular, and its pointer() and last_finalized() are Some.
C22_GenesisIffSlotZero ==
    codec.phase \in {"read_back", "written_back"} /\ codec.read.ok =>
        LET block == codec.read.val
        IN  /\ block.data.variant = "Genesis" <=> block.slot = 0
            /\ block.slot = 0 =>
                  /\ block.data.data = Drop(codec.b, 8)
                  /\ Block_pointer(block) = None
                  /\ Block_last_finalized(block) = None
            /\ block.slot # 0 =>
                  /\ block.data.variant = "Regular"
                  /\ Block_pointer(block) = Some(Take(Drop(codec.b, 8), BLOCK_HASH_LENGTH))
                  /\ Block_last_finalized(block).some
                  /\ Block_last_finalized(block).val = block.data.last_finalized

C22_Witness ==
    /\ codec.phase = "written_back"
    /\ codec.read.ok
    /\ codec.read.val.slot = 0
    /\ codec.read.val.data.variant = "Genesis"
    /\ codec.read.val.data.data = <<1, 2, 3>>
    /\ ~Block_pointer(codec.read.val).some

\* C23: the deserialization of a proper prefix of a serialized block
\* returns an error: it does not succeed and it does not abort.
C23_PrefixIsError ==
    codec.phase = "prefix_read" => codec.read.ret = "Err"

\* the fields before the nonce of a transaction are acceptable
TxHeadAcceptable(f) == f.scheme_id \in SchemeIds

\* C24: a transaction or an account record whose nonce field is 0 fails to
\* deserialize with an error and yields no value; a nonzero nonce is never
\* the reason of a failure, and the value that is produced carries it.
C24_ZeroNonceRejected ==
    /\ codec.phase \in {"transaction_read", "account_read"} /\ codec.v.nonce = 0
         => /\ codec.read.ret = "Err"
            /\ codec.read.val = <<>>
            /\ (codec.phase = "account_read" \/ TxHeadAcceptable(codec.v))
                 => codec.read.stage = "nonce_check"
    /\ codec.phase \in {"transaction_read", "account_read"} /\ codec.v.nonce # 0
         => /\ codec.read.stage # "nonce_check"
            /\ codec.phase = "account_read" => codec.read.ok
            /\ codec.read.ok => (IF codec.phase = "account_read" THEN codec.read.val.nonce
                                 ELSE codec.read.val.header.nonce) = codec.v.nonce

C24_Witness ==
    /\ codec.phase = "transaction_read"
    /\ codec.v.nonce = 0
    /\ codec.read.stage = "nonce_check"
    /\ codec.read.ret = "Err"

\* C25: a payload length above 512 MiB fails with an error at the check of the
\* length, with every byte after the length field still unread; a payload
\* length of exactly 512 MiB passes the check.
C25_PayloadLimit ==
    codec.phase = "transaction_read" /\ TxHeadAcceptable(codec.v) /\ codec.v.nonce # 0
      => /\ codec.v.payload_len > PAYLOAD_MAX_LEN
              => /\ codec.read.ret = "Err"
                 /\ codec.read.stage = "payload_max_len"
                 /\ codec.read.rest = codec.v.payload
         /\ codec.v.payload_len <= PAYLOAD_MAX_LEN
              => codec.read.stage \in {"payload", "done"}

C25_Witness ==
    /\ codec.phase = "transaction_read"
    /\ codec.v.payload_len = PAYLOAD_MAX_LEN + 1
    /\ codec.v.payload # <<>>
    /\ codec.read.stage = "payload_max_len"

C25_WitnessAtLimit ==
    /\ codec.phase = "transaction_read"
    /\ codec.v.payload_len = PAYLOAD_MAX_LEN
    /\ codec.read.stage = "payload"

\* a reader rejects a declared length above the bound of its kind
BytestringBoundOnRead ==
    codec.phase = "bytestring_read" /\ codec.v.len > LengthLimit(codec.v.kind) => ~codec.read.ok

\* within the bound, the writer followed by the reader returns the bytes
BytestringRoundTrip ==
    /\ codec.phase = "bytestring_read_back" /\ codec.v.len <= LengthLimit(codec.v.kind)
         => codec.read.same
    /\ codec.phase = "bytestring_read" /\ codec.v.len <= LengthLimit(codec.v.kind)
         => codec.read.same

\* the length prefix a writer emits is the number of bytes written after it
BytestringPrefixIsLength ==
    codec.phase = "bytestring_read_back" => codec.out.prefix = codec.out.written

\* C26: the readers reject a declared length above 1 KiB, 4 KiB and 64 KiB,
\* a byte string within the bound is returned by the writer followed by the
\* reader, and a writer never emits a length prefix that differs from the
\* number of bytes written after it.
C26_BytestringBounds ==
    /\ BytestringBoundOnRead
    /\ BytestringRoundTrip
    /\ BytestringPrefixIsLength

\* a value with at most 1024 justifiers is read back, field by field, from
\* what serial has written
CatchUpValueRoundTrip ==
    codec.phase = "catchup_read_back" /\ codec.v.justifiers <= JUSTIFIERS_LIMIT
      => codec.read.ok /\ codec.read.same

\* C27: a CatchUpStatus with at most 1024 finalization justifiers is read back
\* with the same fields from what serial has written, and a byte string that
\* deserial accepts is written back unchanged by serial.
C27_CatchUpRoundTrip ==
    /\ CatchUpValueRoundTrip
    /\ codec.phase = "catchup_written_back" /\ codec.read.ok /\ codec.read.same
         => codec.out.same

\* the bare transactions of a regular block
BareTransactions(block) == transform_txs(block.data.transactions).val

\* two regular blocks have the same fields that enter the hash
SameHashedFields(x, y) ==
    /\ x.slot = y.slot
    /\ x.data.pointer = y.data.pointer
    /\ x.data.baker_id = y.data.baker_id
    /\ x.data.proof = y.data.proof
    /\ x.data.nonce = y.data.nonce
    /\ x.data.last_finalized = y.data.last_finalized
    /\ BareTransactions(x) = BareTransactions(y)
    /\ x.data.signature = y.data.signature

\* C28: a byte string that deserializes to a regular block gives the same
\* pending-block hash as the serialization of that block, and two byte
\* strings whose blocks differ in slot, pointer, baker_id, proof, nonce,
\* last_finalized, bare transactions or signature give different inputs to
\* the hash.
C28_PendingHashStable ==
    codec.phase \in {"pending_new", "pending_again"} =>
      /\ codec.read.a.ret = "Ok" => codec.out.ret = "Ok" /\ codec.out.hash = codec.read.a.hash
      /\ codec.read.a.ret = "Ok" /\ codec.read.b.ret = "Ok"
           /\ ~SameHashedFields(codec.read.a.block, codec.read.b.block)
           => codec.read.a.hash # codec.read.b.hash

C28_Witness ==
    /\ codec.phase = "pending_again"
    /\ codec.read.a.ret = "Ok" /\ codec.read.b.ret = "Ok"
    /\ codec.read.a.block.data.signature # codec.read.b.block.data.signature
    /\ codec.read.a.block.data.signature = <<8>>
    /\ codec.read.b.block.data.signature = <<>>
    /\ BareTransactions(codec.read.a.block) = BareTransactions(codec.read.b.block)
    /\ codec.read.a.hash # codec.read.b.hash
    /\ codec.out.hash = codec.read.a.hash

\* C29: get_random_nodes never returns the excluded peer, more than count
\* peers, a peer twice, or a peer whose networks do not intersect the
\* requested ones; the peer list of the bootstrapper is made with the
\* requesting peer excluded and a count of 100.
C29_RandomNodes ==
    /\ peer_list.pc \in {"returned", "sent", "failed"} =>
         /\ \A p \in BagToSet(peer_list.nodes) :
              /\ p.id # peer_list.exclude
              /\ CopiesIn(p, peer_list.nodes) = 1
              /\ p.networks \cap peer_list.networks # {}
              /\ p \in peer_list.buckets
         /\ BagCardinality(peer_list.nodes) <= peer_list.count
    /\ peer_list.pc \in {"sent", "failed"} =>
         /\ peer_list.exclude = peer_list.sender
         /\ peer_list.count = 100
    /\ peer_list.pc = "sent" => peer_list.reply.nodes = peer_list.nodes

C29_Witness ==
    /\ peer_list.pc = "sent"
    /\ \E p \in peer_list.buckets : p.id = peer_list.sender /\ p.networks \cap peer_list.networks # {}
    /\ Cardinality({ p \in peer_list.buckets : p.id # peer_list.sender
                                                /\ p.networks \cap peer_list.networks # {} }) > 100
    /\ BagCardinality(peer_list.nodes) = 100

\* C30: on an Established connection a response or a DirectMessage or
\* BroadcastedMessage packet sets last-seen to the time of its processing, and
\* the unknown and the invalid callback are in place; on an Untrusted
\* connection no callback updates last-seen and none is in place for unknown
\* and invalid messages.
C30_LastSeenWiring ==
    /\ dispatch.last.pre = "Established"
         /\ (dispatch.last.msg.cat = "Response" \/ dispatch.last.msg.cat = "Packet")
         => dispatch.last_seen = dispatch.last.at
    /\ dispatch.status = "Established"
         => /\ CallbacksOf(dispatch.handlers).unknown = <<"default_unknown_message">>
            /\ CallbacksOf(dispatch.handlers).invalid = <<"default_invalid_message">>
    /\ dispatch.status = "Untrusted"
         => /\ CallbacksOf(dispatch.handlers).unknown = <<>>
            /\ CallbacksOf(dispatch.handlers).invalid = <<>>
            /\ \A msg \in DispatchMessages :
                  ~UpdatesLastSeen(CalledCallbacks(CallbacksOf(dispatch.handlers), msg), msg)
    /\ dispatch.last.pre = "Untrusted" => dispatch.last_seen = dispatch.last.seen_before

C30_Witness ==
    /\ dispatch.last.pre = "Established"
    /\ dispatch.last.msg.cat = "Packet"
    /\ dispatch.last.res = "Err"
    /\ dispatch.last.seen_before < dispatch.last.at
    /\ dispatch.last_seen = dispatch.last.at

\* a message that was passed on with success was written as its length and
\* then its bytes
OutboundFramed ==
    outbound.last.ret = "Ok"
      => outbound.last.wrote = <<WriteU32(Len(outbound.last.pkt)), outbound.last.pkt>>

\* what Connection::serialize_bytes has written was followed by flush_tls
ConnectionFlushes ==
    outbound.last.side = "connection" /\ Len(outbound.last.wrote) = 2 => outbound.last.flushed

\* C31: an outbound message is written into the TLS session as its 4-byte
\* length and then its bytes, and the write is followed by a flush of the
\* session, in Connection::serialize_bytes and in the serialize_bytes of the
\* handlers alike.
C31_FramedAndFlushed ==
    /\ OutboundFramed
    /\ Len(outbound.last.wrote) = 2 => outbound.last.flushed

\* get_messages_received has grown by one for each frame handed to
\* process_complete_packet
ReceivedCountsFrames == conn.messages_received = Len(conn.delivered)

\* C37: get_messages_sent grows by exactly one for each message passed to
\* Connection::serialize_bytes, and get_messages_received by exactly one for
\* each complete frame handed to process_complete_packet.
C37_CountersByOne ==
    /\ outbound.last.side = "connection"
         => outbound.messages_sent = outbound.last.sent_before + 1
    /\ ReceivedCountsFrames

\* C32: when a Bootstrapper refuses a DirectMessage or BroadcastedMessage
\* frame the connection is closed and the counter invalid_packets_received
\* has grown by one for that frame.
C32_RejectionClosesAndCounts ==
    conn.local_peer_type = "Bootstrapper" =>
      /\ conn.rejected > 0 => conn.closing
      /\ conn.invalid_packets_received = conn.rejected

\* C33: after every call of incoming_plaintext currently_read is at most
\* expected_size, expected_size is at most 268,435,456, a packet buffer that
\* is present holds currently_read bytes, and currently_read is 0 whenever
\* expected_size is 0.
C33_FramerInvariant ==
    /\ conn.currently_read <= conn.expected_size
    /\ conn.expected_size <= 268435456
    /\ conn.pkt_buffer.some => Len(conn.pkt_buffer.data) = conn.currently_read
    /\ conn.expected_size = 0 => conn.currently_read = 0

C33_Witness ==
    /\ conn.pkt_buffer.some
    /\ 0 < conn.currently_read
    /\ conn.currently_read < conn.expected_size
    /\ Len(conn.pkt_buffer.data) = conn.currently_read
    /\ rest # <<>>

\* C34: the lifecycle flags only move forward: closing never becomes false
\* again, closed never becomes false again, closed implies closing, and an
\* Established connection never returns to Untrusted.
C34_LifecycleMonotone ==
    [][ /\ conn.closing => conn'.closing
        /\ conn.closed => conn'.closed
        /\ conn'.closed => conn'.closing
        /\ conn.status = "Established" => conn'.status = "Established" ]_vars

C34_Witness ==
    /\ conn.closed
    /\ conn.closing
    /\ conn.status = "Established"
    /\ last.op = "ready"

\* C35: once the connection is closing or closed, flush_tls writes nothing
\* to the socket and returns Ok(0), in every later ready() and
\* serialize_bytes() and in the ready() whose read loop set closing; what
\* the TLS session holds at that point is never transmitted.
C35_NoWriteOnceClosing ==
    /\ [](last.op = "ready" /\ last.rafter =>
             last.wres = "None" /\ tls.pending = last.wpending)
    /\ [][ conn.closing \/ conn.closed =>
             /\ last'.wres = "None"
             /\ tls'.pending >= tls.pending
             /\ last'.op = "serialize_bytes" => last'.ret = "Ok" ]_vars

C35_Witness ==
    /\ conn.closed
    /\ tls.pending > 0
    /\ last.op = "ready"
    /\ last.wpending > 0

\* C36: once the connection is closing no further complete frame is handed
\* to process_complete_packet, neither from the rest of the chunk in which
\* the violation was detected nor from plaintext read later.
C36_NoDispatchOnceClosing ==
    \A i \in 1..Len(conn.delivered) : ~conn.delivered[i].was_closing

\* C38: TransactionPayload::deserialize is total over the tag byte: for
\* every tag 0..255 it returns a payload or an error, a tag outside the
\* variants is an error, and the tags 4..9 give a value or an error too.
C38_PayloadTotal ==
    codec.phase = "payload_read" =>
      /\ codec.read.ret \in {"Ok", "Err"}
      /\ codec.v \notin 0..9 => codec.read.ret = "Err"

\* C39: processing a PeerList response never takes the node past its
\* desired peer count: with c Node peers and the desired count d, no connect
\* is attempted when c >= d, and otherwise the handler stops as soon as the
\* successful connects plus c reach d, for every c, above 255 too.
C39_DesiredPeersRespected ==
    peer_resp.pc = "done" =>
      /\ ~peer_resp.panicked
      /\ peer_resp.peer_count >= peer_resp.desired_nodes => peer_resp.connects = 0
      /\ peer_resp.peer_count < peer_resp.desired_nodes =>
            /\ peer_resp.new_peers + peer_resp.peer_count <= peer_resp.desired_nodes
            /\ peer_resp.new_peers + peer_resp.peer_count < peer_resp.desired_nodes =>
                  peer_resp.connects = Len(peer_resp.results)

\* C40: on startup every entry of the persisted ban list is in the ban set
\* before the event loop is spawned and before any connection is initiated
\* or accepted, so no connection to a peer of the persisted list is ever
\* accepted or initiated.
C40_BansLoadedFirst ==
    /\ [](startup.persisted \cap (startup.initiated \cup startup.accepted) = {})
    /\ [][ \/ startup'.spawned /\ ~startup.spawned
           \/ startup'.initiated # startup.initiated
           \/ startup'.accepted # startup.accepted
           \/ startup'.refused # startup.refused
           => startup.persisted \subseteq startup.banned ]_vars

C40_Witness ==
    /\ startup.pc = "running"
    /\ startup.spawned
    /\ Cardinality(startup.persisted) > 1
    /\ startup.persisted \subseteq startup.banned
    /\ startup.persisted \subseteq startup.refused
    /\ startup.initiated # {}
    /\ startup.accepted # {}

====
